---- MODULE Spec2Model ----
(***************************************************************************)
(* BioCatalyzer: the BioReactor generation step (react, _react_single),    *)
(* the product filter (_match_conditions and its stages), the choice of    *)
(* the representative product (most_similar_compound) and the              *)
(* reconciliation of rows (process_results).                               *)
(*                                                                         *)
(* A Python str is a sequence of one-character strings, so that split,     *)
(* join, replace, count and indexing are computed as Python computes them. *)
(* RDKit is an external library: its answers (parse, heavy atom count,     *)
(* canonical form, substructure match, uncharge, fingerprint similarity,   *)
(* RunReactants) are tables over a small universe of structures.           *)
(***************************************************************************)
EXTENDS Integers, Sequences, FiniteSets, TLC

VARIABLES
    min_atom_count,        \* BioReactor._min_atom_count
    molecules_to_remove,   \* BioReactor._molecules_to_remove (list of Mol)
    patterns_to_remove,    \* BioReactor._patterns_to_remove (list of patterns)
    neutralize,            \* BioReactor._neutralize
    n_jobs,                \* BioReactor._n_jobs
    new_compounds,         \* BioReactor._new_compounds (None or a message)
    file,                  \* content of new_compounds.tsv (None: no file)
    pc,                    \* position of react(): idle, running, returned, raised
    taskqueue,             \* Pool: chunks of (smiles, smarts) not yet taken
    worker,                \* Pool: per worker, the rest of its current chunk
    poolError,             \* Pool: the first exception a worker reported
    callLog,               \* per finished _react_single call: its outcome
    uuidCount,             \* number of uuid4() values drawn so far
    readResult,            \* outcome of the last read of BioReactor.new_compounds
    compounds,             \* BioReactor._compounds (table: compound_id, smiles)
    reaction_rules,        \* BioReactor._reaction_rules (table of rules)
    similarity,            \* RDKit's fingerprint similarity of two structures
    fin,                   \* input of the pure function under check
    fout,                  \* its result
    matcher,               \* the MSDataMatcher object (None: not constructed)
    disk,                  \* the output directories and the files they hold
    cli,                   \* biocatalyzer_cli: its arguments and its position
    output_path,           \* BioReactor._output_path (None: no reactor)
    handles,               \* per worker: the file object f of its open call
    paths                  \* BioReactor: the paths it stores (_compounds_path, ...)

vars == <<min_atom_count, molecules_to_remove, patterns_to_remove, neutralize,
          n_jobs, new_compounds, file, pc, taskqueue, worker, poolError,
          callLog, uuidCount, readResult, compounds, reaction_rules,
          similarity, fin, fout, matcher, disk, cli, output_path, handles,
          paths>>

reactorVars == <<new_compounds, file, pc, taskqueue, worker, poolError,
                 callLog, uuidCount, readResult>>

reactorVarsButPc == <<new_compounds, file, taskqueue, worker, poolError,
                      callLog, uuidCount, readResult>>

configVars == <<min_atom_count, molecules_to_remove, patterns_to_remove,
                neutralize, n_jobs, compounds, reaction_rules, similarity>>

matcherVars == <<matcher, disk, cli, output_path>>

(***************************************************************************)
(* Bounds of the model.                                                    *)
(***************************************************************************)
MaxMinAtomCount == 3
MaxJobs == 2
MaxSim == 2
MaxList == 2
MaxCandidates == 3
MaxRows == 3
MaxProcess == 2

(***************************************************************************)
(* Python values that are not str.                                         *)
(***************************************************************************)
None == <<"None">>
NaN == <<"NaN">>

(***************************************************************************)
(* Python str operations.                                                  *)
(***************************************************************************)
\* s.count(ch)
RECURSIVE Count(_, _)
Count(s, ch) ==
    IF s = <<>> THEN 0
    ELSE (IF Head(s) = ch THEN 1 ELSE 0) + Count(Tail(s), ch)

\* ch in s
Contains(s, ch) == \E i \in 1..Len(s) : s[i] = ch

\* s.split(sep) for a one-character separator: always at least one field
Split(s, sep) ==
    LET seps == {i \in 1..Len(s) : s[i] = sep}
        n == Cardinality(seps)
        pos(k) == IF k = 0 THEN 0
                  ELSE IF k = n + 1 THEN Len(s) + 1
                  ELSE CHOOSE i \in seps : Cardinality({j \in seps : j <= i}) = k
    IN  [k \in 1..(n + 1) |-> SubSeq(s, pos(k - 1) + 1, pos(k) - 1)]

\* sep.join(parts)
RECURSIVE Join(_, _)
Join(parts, sep) ==
    IF parts = <<>> THEN <<>>
    ELSE IF Len(parts) = 1 THEN parts[1]
    ELSE parts[1] \o sep \o Join(Tail(parts), sep)

\* s.startswith(old)
StartsWith(s, old) ==
    /\ Len(s) >= Len(old)
    /\ SubSeq(s, 1, Len(old)) = old

\* s.replace(old, new), old non-empty
RECURSIVE Replace(_, _, _)
Replace(s, old, new) ==
    IF s = <<>> THEN <<>>
    ELSE IF StartsWith(s, old)
         THEN new \o Replace(SubSeq(s, Len(old) + 1, Len(s)), old, new)
         ELSE <<Head(s)>> \o Replace(Tail(s), old, new)

\* the members of a sequence
Range(s) == {s[i] : i \in 1..Len(s)}

\* the index of the first occurrence, list.index(x)
FirstIndex(s, x) == CHOOSE i \in 1..Len(s) : s[i] = x /\ \A j \in 1..(i - 1) : s[j] # x

\* max(list) of numbers
MaxOf(s) == CHOOSE m \in Range(s) : \A x \in Range(s) : x <= m

(***************************************************************************)
(* The universe of structures.                                             *)
(***************************************************************************)
CCO == <<"C", "C", "O">>
CC == <<"C", "C">>
OO == <<"O">>
CO == <<"C", "O">>
OC == <<"O", "C">>
COm == <<"C", "[", "O", "-", "]">>
CCp == <<"C", "C", ")">>
pCC == <<"(", "C", "C">>
Bad == <<"C", "=", "(">>
sC == <<"*", "C">>
Empty == <<>>

Structs == {CCO, CC, OO, CO, OC, COm, CCp, pCC, Bad, sC, Empty}

\* rdkit MolFromSmiles(s) is not None
ValidSmiles == {CCO, CC, OO, CO, OC, COm, sC, Empty}

\* Mol.GetNumHeavyAtoms() of MolFromSmiles(s)
HeavyAtoms(s) ==
    CASE s = CCO -> 3
      [] s \in {CC, CO, OC, COm} -> 2
      [] s \in {OO, sC} -> 1
      [] OTHER -> 0

\* rdkit MolToSmiles(RemoveHs(MolFromSmiles(s)), isomericSmiles=True)
MolToSmiles(s) == IF s = OC THEN CO ELSE s

\* rdkit MolToSmiles(Uncharger().uncharge(MolFromSmiles(s)))
Uncharged(s) == IF s = COm THEN CO ELSE MolToSmiles(s)

\* the substructure patterns (SMARTS) of the model and Mol.HasSubstructMatch
PatO == <<"[", "#", "8", "]">>
PatN == <<"[", "#", "7", "]">>
Patterns == {PatO, PatN}

\* a pattern of the charged oxygen only: it matches C[O-] and not CO
PatAnion == <<"[", "O", "-", "]">>

HasSubstructMatch(s, pat) ==
    \/ /\ pat = PatO
       /\ Contains(s, "O")
    \/ /\ pat = PatAnion
       /\ Contains(s, "-")

(***************************************************************************)
(* ChemUtils: thin wrappers of RDKit.                                      *)
(***************************************************************************)
\* a Python object of a type other than str carries its type
Mol(s) == [type |-> "Mol", val |-> s]
NoneObj == [type |-> "NoneType", val |-> <<>>]

\* rdkit MolFromSmiles: a Mol, or None when the text does not parse
MolFromSmiles(s) == IF s \in ValidSmiles THEN Mol(s) ELSE NoneObj

\* ChemUtils.smiles_to_mol
smiles_to_mol(smiles) == MolFromSmiles(smiles)

\* ChemUtils.mol_to_isomerical_smiles: None on a TypeError
mol_to_isomerical_smiles(mol) ==
    IF mol.type = "Mol" THEN MolToSmiles(mol.val) ELSE None

\* ChemUtils.smiles_to_isomerical_smiles
smiles_to_isomerical_smiles(smiles) ==
    mol_to_isomerical_smiles(smiles_to_mol(smiles))

\* ChemUtils.uncharge_smiles: the text itself when it does not parse
uncharge_smiles(smiles) ==
    IF MolFromSmiles(smiles).type = "Mol" THEN Uncharged(smiles) ELSE smiles

(***************************************************************************)
(* Loaders of the reject lists.                                            *)
(***************************************************************************)
\* the reject-list files a run may be configured with (None: no file)
ByproductFiles == {None, <<OO, CC>>}
PatternFiles == {None, <<PatO>>, <<PatAnion>>}

\* Loaders.load_byproducts_to_remove: [MolFromSmiles(sp) for sp in smiles]
load_byproducts_to_remove(path) ==
    IF path = None THEN <<>>
    ELSE [i \in 1..Len(path) |-> MolFromSmiles(path[i])]

\* Loaders.load_patterns_to_remove: [MolFromSmarts(sp) for sp in smarts]
load_patterns_to_remove(path) ==
    IF path = None THEN <<>>
    ELSE path

(***************************************************************************)
(* The product filter of BioReactor.                                       *)
(***************************************************************************)
\* Python's x in list, for a str x: an element equals x only if it is a str
StrInList(x, list) ==
    \E i \in 1..Len(list) : list[i].type = "str" /\ list[i].val = x

\* _match_patterns that lets a text that does not parse through
MatchPatternsLenient(smiles) ==
    IF Len(patterns_to_remove) = 0 THEN FALSE
    ELSE IF smiles_to_mol(smiles).type # "Mol" THEN FALSE
    ELSE \E i \in 1..Len(patterns_to_remove) :
             HasSubstructMatch(smiles, patterns_to_remove[i])

\* BioReactor._match_patterns
_match_patterns(smiles) ==
    IF Len(patterns_to_remove) = 0 THEN FALSE
    ELSE IF smiles_to_mol(smiles).type # "Mol" THEN TRUE
    ELSE \E i \in 1..Len(patterns_to_remove) :
             HasSubstructMatch(smiles, patterns_to_remove[i])

\* _min_atom_count_filter with the threshold off by one
MinAtomCountOffByOne(smiles) ==
    IF smiles_to_mol(smiles).type # "Mol" THEN FALSE
    ELSE HeavyAtoms(smiles) + 1 >= min_atom_count

\* BioReactor._min_atom_count_filter
_min_atom_count_filter(smiles) ==
    IF smiles_to_mol(smiles).type # "Mol" THEN FALSE
    ELSE HeavyAtoms(smiles) >= min_atom_count

\* BioReactor._match_byproducts
_match_byproducts(smiles) ==
    IF Len(molecules_to_remove) = 0 THEN FALSE
    ELSE StrInList(smiles, molecules_to_remove)

\* _match_conditions without its first check (if not smiles)
RejectingStageNoEmptyCheck(smiles) ==
    IF Contains(smiles, "*") THEN "wildcard"
    ELSE IF min_atom_count > 0 /\ ~_min_atom_count_filter(smiles) THEN "min_atom_count"
    ELSE IF Len(molecules_to_remove) > 0 /\ _match_byproducts(smiles) THEN "byproducts"
    ELSE IF Len(patterns_to_remove) > 0 /\ _match_patterns(smiles) THEN "patterns"
    ELSE "accept"

\* the stage of _match_conditions that rejects, or "accept"
RejectingStage(smiles) ==
    IF smiles = None \/ smiles = <<>> THEN "empty"
    ELSE IF Contains(smiles, "*") THEN "wildcard"
    ELSE IF min_atom_count > 0 /\ ~_min_atom_count_filter(smiles) THEN "min_atom_count"
    ELSE IF Len(molecules_to_remove) > 0 /\ _match_byproducts(smiles) THEN "byproducts"
    ELSE IF Len(patterns_to_remove) > 0 /\ _match_patterns(smiles) THEN "patterns"
    ELSE "accept"

\* BioReactor._match_conditions
_match_conditions(smiles) == RejectingStage(smiles) = "accept"

(***************************************************************************)
(* The choice of the representative product.                               *)
(***************************************************************************)
\* the loop body with a second if in place of the elif: both ends are looked at
CorrectBothEnds(p) ==
    IF (Count(p, "(") + Count(p, ")")) % 2 # 0
    THEN LET q == IF p[1] = "(" THEN SubSeq(p, 2, Len(p)) ELSE p
         IN  IF q # <<>> /\ q[Len(q)] = ")" THEN SubSeq(q, 1, Len(q) - 1) ELSE q
    ELSE p

\* one string of _correct_number_of_parenthesis
CorrectOne(p) ==
    IF (Count(p, "(") + Count(p, ")")) % 2 # 0
    THEN IF p[1] = "(" THEN SubSeq(p, 2, Len(p))
         ELSE IF p[Len(p)] = ")" THEN SubSeq(p, 1, Len(p) - 1)
         ELSE p
    ELSE p

\* chem._utils._correct_number_of_parenthesis
_correct_number_of_parenthesis(smiles_list) ==
    [i \in 1..Len(smiles_list) |-> CorrectOne(smiles_list[i])]

\* ChemUtils.calc_fingerprint_similarity: 0.0 unless both texts parse
calc_fingerprint_similarity(smiles1, smiles2) ==
    IF MolFromSmiles(smiles1).type = "Mol" /\ MolFromSmiles(smiles2).type = "Mol"
    THEN similarity[<<smiles1, smiles2>>]
    ELSE 0

\* sims.index(max(sims)) taken from the last index instead of the first
MostSimilarLast(smiles, smiles_list) ==
    LET list == _correct_number_of_parenthesis(smiles_list)
        sims == [i \in 1..Len(list) |-> calc_fingerprint_similarity(smiles, list[i])]
        last == CHOOSE i \in 1..Len(sims) :
                    sims[i] = MaxOf(sims) /\ \A j \in (i + 1)..Len(sims) : sims[j] # MaxOf(sims)
    IN  IF Len(list) = 1 THEN list[1] ELSE list[last]

\* ChemUtils.most_similar_compound
most_similar_compound(smiles, smiles_list) ==
    LET list == _correct_number_of_parenthesis(smiles_list)
        sims == [i \in 1..Len(list) |-> calc_fingerprint_similarity(smiles, list[i])]
    IN  IF Len(list) = 1 THEN list[1]
        ELSE list[FirstIndex(sims, MaxOf(sims))]

(***************************************************************************)
(* The catalog: the compounds file, the reaction rules file and what       *)
(* RDKit answers for the rules' SMARTS.  A SMARTS is never split or        *)
(* indexed by the program; the texts s1..s5 stand for five patterns.       *)
(***************************************************************************)
AnyT == <<"A", "n", "y">>
S1 == <<"s", "1">>
S2 == <<"s", "2">>
S3 == <<"s", "3">>
S4 == <<"s", "4">>
S5 == <<"s", "5">>
EC1 == <<"1", ".", "1", ".", "1", ".", "1">>
EC2 == <<"1", ".", "1", ".", "1", ".", "2">>
Spontaneous == <<"spontaneous_reaction">>

CompoundsFile ==
    << [compound_id |-> <<"a">>, smiles |-> CCO],
       [compound_id |-> <<"b">>, smiles |-> Bad] >>

RulesFile ==
    << [InternalID |-> <<"R", "1">>, Reactants |-> AnyT, SMARTS |-> S1,
        EC_Numbers |-> EC1, Organisms |-> <<"e", ";", "h">>],
       [InternalID |-> <<"R", "2">>, Reactants |-> AnyT, SMARTS |-> S2,
        EC_Numbers |-> EC2, Organisms |-> <<"h">>],
       [InternalID |-> <<"R", "3">>, Reactants |-> AnyT, SMARTS |-> S3,
        EC_Numbers |-> EC2, Organisms |-> <<"e">>],
       [InternalID |-> <<"R", "4">>, Reactants |-> AnyT \o <<";">> \o OO, SMARTS |-> S4,
        EC_Numbers |-> NaN, Organisms |-> NaN],
       [InternalID |-> <<"R", "5">>, Reactants |-> AnyT, SMARTS |-> S5,
        EC_Numbers |-> EC1 \o <<";">> \o EC2, Organisms |-> Spontaneous] >>

\* the input compounds that parse: the sources similarity is taken to
SourceSmiles == {CCO}

\* the fingerprint similarities RDKit reports in a run of the reactor
ReactorSimilarity ==
    [p \in SourceSmiles \X ValidSmiles |->
        IF p[1] = p[2] THEN 2
        ELSE IF p[2] = CC THEN 2
        ELSE IF p[2] \in {CO, OC, COm} THEN 1
        ELSE 0]

\* rdkit ReactionFromSmarts(smarts) raises ValueError: s5 is no valid pattern
InvalidSmarts == {S5}

\* the number of reactant templates of a reaction pattern
NumReactantTemplates(smarts) == IF smarts \in {S2, S4} THEN 2 ELSE 1

\* rdkit ChemicalReaction.RunReactants: the product sets, one per pattern
\* match ("ValueError" when the reactants do not fit the templates)
RunReactants(smarts, reactants) ==
    IF Len(reactants) # NumReactantTemplates(smarts)
    THEN [type |-> "ValueError", val |-> <<>>]
    ELSE [type |-> "tuple",
          val |-> IF reactants[1] # CCO THEN <<>>
                  ELSE CASE smarts = S1 -> << <<CCp, OO>>, <<sC>> >>
                         [] smarts = S3 -> << <<CC>>, <<CC>>, <<OO>>, <<Bad>> >>
                         [] smarts = S4 -> << <<COm, OO>>, <<OC, OO>> >>
                         [] OTHER -> <<>>]

\* rdkit AllChem.ReactionToSmiles of the reactants and one product set
ReactionToSmiles(reactants, products) ==
    Join([i \in 1..Len(reactants) |-> MolToSmiles(reactants[i])], <<".">>)
        \o <<">", ">">> \o Join(products, <<".">>)

\* ChemUtils._smarts_to_reaction: None on a ValueError
_smarts_to_reaction(smarts) ==
    IF smarts \in InvalidSmarts THEN NoneObj
    ELSE [type |-> "ChemicalReaction", val |-> smarts]

\* ChemUtils._create_reaction_instances: list(set(reaction smiles))
_create_reaction_instances(rxn, reactants) ==
    LET ps == RunReactants(rxn.val, reactants)
    IN  IF ps.type = "ValueError" THEN [type |-> "ValueError", val |-> {}]
        ELSE [type |-> "list",
              val |-> {ReactionToSmiles(reactants, ps.val[i]) : i \in 1..Len(ps.val)}]

\* ChemUtils.react: [] on a parse failure, None on a ValueError
react(smiles, smarts) ==
    LET mol == [i \in 1..Len(smiles) |-> MolFromSmiles(smiles[i])]
        reaction == _smarts_to_reaction(smarts)
    IN  IF (\E i \in 1..Len(mol) : mol[i] = NoneObj) \/ reaction = NoneObj
        THEN [type |-> "list", val |-> {}]
        ELSE LET r == _create_reaction_instances(reaction, smiles)
             IN  IF r.type = "ValueError" THEN NoneObj ELSE r

(***************************************************************************)
(* Loaders of the catalog.                                                 *)
(***************************************************************************)
\* the organisms a run may be configured with (None: no filter)
OrganismsPaths == {None, <<"e">>}

\* Loaders.load_organisms: 'ALL', or the ;-separated identifiers
load_organisms(path) ==
    IF path = None THEN [type |-> "str", val |-> <<<<"ALL">>>>]
    ELSE [type |-> "list", val |-> Split(path, ";")]

\* a cell pandas read as a number (int64, or float64 beside empty cells)
Number(text) == <<"number">> \o text

\* isinstance(value, str) of a cell of a table
IsStr(value) == value = <<>> \/ value[1] \notin {"NaN", "number"}

\* match_org of Loaders.load_reaction_rules
match_org(value, orgs_list) ==
    /\ IsStr(value)
    /\ \E i \in 1..Len(orgs_list) : orgs_list[i] \in Range(Split(value, ";"))

\* Loaders.load_reaction_rules
load_reaction_rules(rules, orgs) ==
    IF orgs.type = "str" THEN rules
    ELSE LET orgs_list == Append(orgs.val, Spontaneous)
             has_org(r) == match_org(r.Organisms, orgs_list)
         IN  SelectSeq(rules, has_org)

(***************************************************************************)
(* new_compounds.tsv: a text of tab-separated fields and newline-ended     *)
(* lines.  A column name is never split or indexed: it is one symbol.      *)
(***************************************************************************)
NumColumns == 7

Columns == << <<"OriginalCompoundID">>, <<"OriginalCompoundSmiles">>,
              <<"OriginalReactionRuleID">>, <<"NewCompoundID">>,
              <<"NewCompoundSmiles">>, <<"NewReactionSmiles">>, <<"EC_Numbers">> >>

HeaderLine == Join(Columns, <<"\t">>) \o <<"\n">>

\* str(x) of an f-string field
Str(x) ==
    IF x = None THEN <<"N", "o", "n", "e">>
    ELSE IF x = NaN THEN <<"n", "a", "n">>
    ELSE x

\* the decimal digits of a natural number
RECURSIVE Dec(_)
Dec(n) ==
    LET digit == <<"0", "1", "2", "3", "4", "5", "6", "7", "8", "9">>
    IN  IF n < 10 THEN <<digit[n + 1]>> ELSE Dec(n \div 10) \o <<digit[(n % 10) + 1]>>

\* str(uuid.uuid4()): a text met nowhere else; the n-th value drawn is "u<n>"
Uuid4(n) == <<"u">> \o Dec(n)

\* the line _react_single writes for one product
FormatRow(smiles_id, smiles, smarts_id, uuid, product, result, ecs) ==
    Join(<<Str(smiles_id), Str(smiles), Str(smarts_id),
           Str(smiles_id) \o <<"_">> \o uuid, Str(product), Str(result), Str(ecs)>>,
         <<"\t">>) \o <<"\n">>

\* pandas read_csv(sep='\t', header=0): the column names and the rows
ReadCsv(text) ==
    LET parts == Split(text, "\n")
        lines == SubSeq(parts, 1, Len(parts) - 1)
    IN  [columns |-> Split(lines[1], "\t"),
         rows |-> [i \in 1..(Len(lines) - 1) |-> Split(lines[i + 1], "\t")]]

\* the rows of new_compounds.tsv, each a sequence of fields
FileRows == IF file = None THEN <<>> ELSE ReadCsv(file).rows

(***************************************************************************)
(* BioReactor._react_single.                                               *)
(***************************************************************************)
\* table[table.column == value] ... .values[0]: the first row that matches
FirstRuleBySmarts(smarts) ==
    reaction_rules[CHOOSE i \in 1..Len(reaction_rules) :
        /\ reaction_rules[i].SMARTS = smarts
        /\ \A j \in 1..(i - 1) : reaction_rules[j].SMARTS # smarts]

FirstRuleById(id) ==
    reaction_rules[CHOOSE i \in 1..Len(reaction_rules) :
        /\ reaction_rules[i].InternalID = id
        /\ \A j \in 1..(i - 1) : reaction_rules[j].InternalID # id]

FirstCompoundBySmiles(smiles) ==
    compounds[CHOOSE i \in 1..Len(compounds) :
        /\ compounds[i].smiles = smiles
        /\ \A j \in 1..(i - 1) : compounds[j].smiles # smiles]

\* BioReactor._get_ec_numbers
_get_ec_numbers(reaction_rule_id) == FirstRuleById(reaction_rule_id).EC_Numbers

\* Python's == between values that carry their type
PyEq(a, b) == a.type = b.type /\ a.val = b.val

\* a check of the number of fields of the row: len(row.split('\t')) != 7
FieldCountDiffers(row) == Len(Split(row, "\t")) # NumColumns

\* the check after the write: row.split('\t') != 7, a list against an int
WrongNumberOfColumns(row) ==
    ~PyEq([type |-> "list", val |-> Split(row, "\t")],
          [type |-> "int", val |-> NumColumns])

\* the resolved reactants of a (compound, rule) pair
ResolvedReactants(smiles, smarts) ==
    Split(Replace(FirstRuleBySmarts(smarts).Reactants, AnyT, smiles), ";")

\* the decision of the loop taken on the neutralized representative
AcceptsNeutralized(most_similar_product) ==
    _match_conditions(IF neutralize /\ most_similar_product # None
                      THEN uncharge_smiles(most_similar_product)
                      ELSE most_similar_product)

\* the decision of the loop: if self._match_conditions(most_similar_product),
\* on the representative as generated
AcceptsRepresentative(most_similar_product) ==
    _match_conditions(most_similar_product)

\* the for loop of _react_single over the reaction smiles: the text it
\* appends to the file, the exception that ends it, the uuids drawn, the
\* representatives it met (most_similar_products_set) and those it accepted
RECURSIVE ReactLoop(_, _, _, _, _, _)
ReactLoop(smiles, smiles_id, smarts_id, results, seen, n) ==
    IF results = <<>>
    THEN [text |-> <<>>, exc |-> "none", n |-> n, seen |-> seen, accepted |-> {}]
    ELSE
      LET result == Head(results)
          sides == Split(result, ">")
          products == Split(sides[Len(sides)], ".")
          most_similar_product ==
              smiles_to_isomerical_smiles(most_similar_compound(smiles, products))
      IN  IF most_similar_product \in seen
          THEN ReactLoop(smiles, smiles_id, smarts_id, Tail(results), seen, n)
          ELSE IF ~AcceptsRepresentative(most_similar_product)
          THEN ReactLoop(smiles, smiles_id, smarts_id, Tail(results),
                         seen \cup {most_similar_product}, n)
          ELSE
            LET product == IF neutralize THEN uncharge_smiles(most_similar_product)
                           ELSE most_similar_product
                ecs == _get_ec_numbers(smarts_id)
                row == FormatRow(smiles_id, smiles, smarts_id, Uuid4(n + 1),
                                 product, result, ecs)
            IN  IF WrongNumberOfColumns(row)
                THEN [text |-> row, exc |-> "ValueError", n |-> n + 3,
                      seen |-> seen \cup {most_similar_product},
                      accepted |-> {most_similar_product}]
                ELSE LET rest == ReactLoop(smiles, smiles_id, smarts_id, Tail(results),
                                           seen \cup {most_similar_product}, n + 2)
                     IN  [text |-> row \o rest.text, exc |-> rest.exc, n |-> rest.n,
                          seen |-> rest.seen,
                          accepted |-> rest.accepted \cup {most_similar_product}]

\* BioReactor._react_single; results is the list ChemUtils.react returned
\* (the members of the set of reaction smiles, in the order the set gave)
_react_single(smiles, smarts, results, n) ==
    LET nothing == [text |-> <<>>, exc |-> "none", n |-> n, seen |-> {},
                    accepted |-> {}]
    IN  IF results.type = "NoneType" THEN [nothing EXCEPT !.exc = "TypeError"]
        ELSE IF Len(results.val) > 0
             THEN ReactLoop(smiles, FirstCompoundBySmiles(smiles).compound_id,
                            FirstRuleBySmarts(smarts).InternalID, results.val, {}, n)
             ELSE nothing

\* the orders in which list(set) may give the members of a set
Perms(S) ==
    {s \in [1..Cardinality(S) -> S] :
        \A i, j \in 1..Cardinality(S) : i # j => s[i] # s[j]}

\* the lists ChemUtils.react may return for a pair
ReactResults(smiles, smarts) ==
    LET r == react(ResolvedReactants(smiles, smarts), smarts)
    IN  IF r.type = "NoneType" THEN {r}
        ELSE {[type |-> "list", val |-> order] : order \in Perms(r.val)}

(***************************************************************************)
(* BioReactor.process_results: the reconciliation of the rows of           *)
(* new_compounds.tsv.                                                      *)
(***************************************************************************)
\* the characters of the keys in the order of their code points
CodePoints == <<"(", ")", "*", "-", ".", "0", "1", "2", "3", "4", "5", "6", "7",
                "8", "9", ";", "=", ">", "C", "N", "O", "R", "[", "]", "_", "a",
                "b", "e", "n", "o", "u">>

Ord(ch) == CHOOSE i \in 1..Len(CodePoints) : CodePoints[i] = ch

\* a <= b for two str
RECURSIVE StrLeq(_, _)
StrLeq(a, b) ==
    IF a = <<>> THEN TRUE
    ELSE IF b = <<>> THEN FALSE
    ELSE IF Head(a) = Head(b) THEN StrLeq(Tail(a), Tail(b))
    ELSE Ord(Head(a)) < Ord(Head(b))

\* a <= b for two group keys (tuples of two str)
KeyLeq(a, b) == IF a[1] = b[1] THEN StrLeq(a[2], b[2]) ELSE StrLeq(a[1], b[1])

\* the group keys in sorted order (groupby sorts its keys)
RECURSIVE SortKeys(_)
SortKeys(keys) ==
    IF keys = {} THEN <<>>
    ELSE LET m == CHOOSE x \in keys : \A y \in keys : KeyLeq(x, y)
         IN  <<m>> \o SortKeys(keys \ {m})

\* the texts pandas read_csv takes for a missing value
NaValues == {<<>>, <<"n", "a", "n">>, <<"N", "a", "N">>, <<"N", "A">>,
             <<"N", "o", "n", "e">>, <<"N", "U", "L", "L">>, <<"n", "u", "l", "l">>,
             <<"N", "/", "A">>, <<"n", "/", "a">>, <<"<", "N", "A", ">">>}

\* pandas read_csv(sep='\t', header=0) with its missing values
read_csv(text) ==
    LET raw == ReadCsv(text)
    IN  [columns |-> raw.columns,
         rows |-> [i \in 1..Len(raw.rows) |->
                     [j \in 1..Len(raw.rows[i]) |->
                        IF raw.rows[i][j] \in NaValues THEN NaN
                        ELSE raw.rows[i][j]]]]

\* DataFrame.to_csv(sep='\t', index=False): a missing value is an empty field
to_csv(table) ==
    LET line(row) ==
            Join([j \in 1..Len(row) |-> IF row[j] = NaN THEN <<>> ELSE row[j]],
                 <<"\t">>) \o <<"\n">>
        RECURSIVE lines(_)
        lines(rows) == IF rows = <<>> THEN <<>>
                       ELSE line(Head(rows)) \o lines(Tail(rows))
    IN  Join(table.columns, <<"\t">>) \o <<"\n">> \o lines(table.rows)

\* the list x ends up as when each member not yet in it is appended
RECURSIVE Distinct(_, _)
Distinct(values, acc) ==
    IF values = <<>> THEN acc
    ELSE IF Head(values) \in Range(acc) THEN Distinct(Tail(values), acc)
    ELSE Distinct(Tail(values), Append(acc, Head(values)))

\* biocatalyzer._utils._merge_fields
_merge_fields(value) ==
    LET notEmpty(v) == v # <<>>
        values == SelectSeq(Distinct(Split(value, ";"), <<>>), notEmpty)
    IN  IF Len(values) = 0 THEN NaN ELSE Join(values, <<";">>)

\* one aggregation of groupby(...).agg: 'first', 'last' or ';'.join
Agg(how, values) ==
    LET notNa(v) == v # NaN
        present == SelectSeq(values, notNa)
    IN  CASE how = "first" -> IF present = <<>> THEN NaN ELSE present[1]
          [] how = "last" -> IF present = <<>> THEN NaN ELSE present[Len(present)]
          [] how = "join" -> Join(values, <<";">>)

\* groupby(['OriginalCompoundID', 'NewCompoundSmiles']).agg(how), then the
\* columns reordered and _merge_fields applied to the three joined columns
GroupAndMerge(text, how) ==
    LET results == read_csv(text)
        ec(row) == IF row[7] = NaN THEN <<>> ELSE row[7]
        rows == [i \in 1..Len(results.rows) |->
                    [results.rows[i] EXCEPT ![7] = ec(results.rows[i])]]
        withKey == {i \in 1..Len(rows) : rows[i][1] # NaN /\ rows[i][5] # NaN}
        keys == SortKeys({<<rows[i][1], rows[i][5]>> : i \in withKey})
        column(key, c) ==
            LET inGroup(row) == row[1] = key[1] /\ row[5] = key[2]
                group == SelectSeq(rows, inGroup)
            IN  [i \in 1..Len(group) |-> group[i][c]]
        merged(k) ==
            << keys[k][1],
               Agg(how.OriginalCompoundSmiles, column(keys[k], 2)),
               _merge_fields(Agg(how.OriginalReactionRuleID, column(keys[k], 3))),
               Agg(how.NewCompoundID, column(keys[k], 4)),
               keys[k][2],
               _merge_fields(Agg(how.NewReactionSmiles, column(keys[k], 6))),
               _merge_fields(Agg(how.EC_Numbers, column(keys[k], 7))) >>
    IN  to_csv([columns |-> Columns, rows |-> [k \in 1..Len(keys) |-> merged(k)]])

\* process_results that keeps the last NewCompoundID of a group
ProcessResultsLastId(text) ==
    GroupAndMerge(text, [OriginalCompoundSmiles |-> "first",
                         OriginalReactionRuleID |-> "join",
                         NewCompoundID |-> "last",
                         NewReactionSmiles |-> "join",
                         EC_Numbers |-> "join"])

\* process_results that keeps the first rule id and EC numbers of a group
ProcessResultsFirstOnly(text) ==
    GroupAndMerge(text, [OriginalCompoundSmiles |-> "first",
                         OriginalReactionRuleID |-> "first",
                         NewCompoundID |-> "first",
                         NewReactionSmiles |-> "join",
                         EC_Numbers |-> "first"])

\* BioReactor.process_results(save=True, overwrite=True): the new content
\* of new_compounds.tsv
process_results(text) ==
    GroupAndMerge(text, [OriginalCompoundSmiles |-> "first",
                         OriginalReactionRuleID |-> "join",
                         NewCompoundID |-> "first",
                         NewReactionSmiles |-> "join",
                         EC_Numbers |-> "join"])

(***************************************************************************)
(* BioReactor.react and its multiprocessing.Pool.                          *)
(***************************************************************************)
\* itertools.product(compounds.smiles, reaction_rules.SMARTS)
Params ==
    LET nr == Len(reaction_rules)
    IN  [k \in 1..(Len(compounds) * nr) |->
            <<compounds[((k - 1) \div nr) + 1].smiles,
              reaction_rules[((k - 1) % nr) + 1].SMARTS>>]

\* Pool.starmap's chunk size: divmod(len, 4 * workers), rounded up
ChunkSize(len, workers) == (len + 4 * workers - 1) \div (4 * workers)

RECURSIVE Chunks(_, _)
Chunks(s, size) ==
    IF s = <<>> THEN <<>>
    ELSE IF Len(s) <= size THEN <<s>>
    ELSE <<SubSeq(s, 1, size)>> \o Chunks(SubSeq(s, size + 1, Len(s)), size)

PoolIdle == taskqueue = <<>> /\ \A w \in DOMAIN worker : worker[w] = <<>>

\* react(): the header is written and the pairs are handed to the pool
ReactStart ==
    /\ pc = "idle"
    /\ pc' = "running"
    /\ file' = HeaderLine
    /\ taskqueue' = Chunks(Params, ChunkSize(Len(Params), n_jobs))
    /\ worker' = [w \in 1..n_jobs |-> <<>>]
    /\ poolError' = "none"
    /\ UNCHANGED <<new_compounds, callLog, uuidCount, readResult, fin, fout>>
    /\ UNCHANGED configVars
    /\ UNCHANGED <<matcherVars, handles, paths>>

\* a pool worker takes the next chunk of pairs
WorkerTake(w) ==
    /\ pc = "running"
    /\ w \in DOMAIN worker
    /\ worker[w] = <<>>
    /\ taskqueue # <<>>
    /\ worker' = [worker EXCEPT ![w] = Head(taskqueue)]
    /\ taskqueue' = Tail(taskqueue)
    /\ UNCHANGED <<new_compounds, file, pc, poolError, callLog, uuidCount,
                   readResult, fin, fout>>
    /\ UNCHANGED configVars
    /\ UNCHANGED <<matcherVars, handles, paths>>

\* a pool worker calls _react_single on the next pair of its chunk; an
\* exception ends the chunk and the pool keeps the first one reported
WorkerCall(w) ==
    /\ pc = "running"
    /\ w \in DOMAIN worker
    /\ worker[w] # <<>>
    /\ LET smiles == Head(worker[w])[1]
           smarts == Head(worker[w])[2]
       IN  \E results \in ReactResults(smiles, smarts) :
             LET out == _react_single(smiles, smarts, results, uuidCount)
             IN  /\ file' = file \o out.text
                 /\ uuidCount' = out.n
                 /\ callLog' = callLog \cup
                        {[smiles |-> smiles, smarts |-> smarts, exc |-> out.exc,
                          wrote |-> out.text # <<>>, seen |-> out.seen,
                          accepted |-> out.accepted]}
                 /\ worker' = [worker EXCEPT ![w] =
                        IF out.exc = "none" THEN Tail(worker[w]) ELSE <<>>]
                 /\ poolError' = IF poolError = "none" THEN out.exc ELSE poolError
    /\ UNCHANGED <<new_compounds, pc, taskqueue, readResult, fin, fout>>
    /\ UNCHANGED configVars
    /\ UNCHANGED <<matcherVars, handles, paths>>

\* react() returns: every chunk is done and no worker reported an exception
ReactReturn ==
    /\ pc = "running"
    /\ PoolIdle
    /\ poolError = "none"
    /\ new_compounds' = <<"saved">>
    /\ pc' = "returned"
    /\ UNCHANGED <<file, taskqueue, worker, poolError, callLog, uuidCount,
                   readResult, fin, fout>>
    /\ UNCHANGED configVars
    /\ UNCHANGED <<matcherVars, handles, paths>>

\* react() raises: every chunk is done and starmap re-raises the exception
ReactRaise ==
    /\ pc = "running"
    /\ PoolIdle
    /\ poolError # "none"
    /\ pc' = "raised"
    /\ UNCHANGED <<new_compounds, file, taskqueue, worker, poolError, callLog,
                   uuidCount, readResult, fin, fout>>
    /\ UNCHANGED configVars
    /\ UNCHANGED <<matcherVars, handles, paths>>

\* Loaders.load_compounds of a tab-separated file: the columns it requires
load_compounds(text) ==
    LET table == ReadCsv(text)
    IN  IF <<"smiles">> \notin Range(table.columns) THEN "ValueError: smiles"
        ELSE IF <<"compound_id">> \notin Range(table.columns)
             THEN "ValueError: compound_id"
        ELSE "DataFrame"

\* reading the property BioReactor.new_compounds
NewCompoundsGet ==
    /\ pc # "running"
    /\ readResult' = IF new_compounds # None THEN load_compounds(file)
                     ELSE "ValueError: not generated"
    /\ UNCHANGED <<new_compounds, file, pc, taskqueue, worker, poolError, callLog,
                   uuidCount, fin, fout>>
    /\ UNCHANGED configVars
    /\ UNCHANGED <<matcherVars, handles, paths>>

(***************************************************************************)
(* The reactor: a BioReactor is constructed with some configuration, and   *)
(* react() runs once.                                                      *)
(***************************************************************************)
\* BioReactor.__init__: the configuration of a run
\* no matcher, no command line: the reactor or a function on its own
NoMatcher ==
    /\ matcher = None
    /\ disk = None
    /\ cli = None
    /\ output_path = None

InitConfig ==
    /\ min_atom_count \in 0..MaxMinAtomCount
    /\ \E path \in ByproductFiles :
           molecules_to_remove = load_byproducts_to_remove(path)
    /\ \E path \in PatternFiles :
           patterns_to_remove = load_patterns_to_remove(path)
    /\ neutralize \in BOOLEAN
    /\ n_jobs \in 1..MaxJobs
    /\ compounds = CompoundsFile
    /\ \E path \in OrganismsPaths :
           reaction_rules = load_reaction_rules(RulesFile, load_organisms(path))
    /\ similarity = ReactorSimilarity

Init ==
    /\ NoMatcher
    /\ handles = <<>>
    /\ paths = <<>>
    /\ InitConfig
    /\ new_compounds = None
    /\ file = None
    /\ pc = "idle"
    /\ taskqueue = <<>>
    /\ worker = <<>>
    /\ poolError = "none"
    /\ callLog = {}
    /\ uuidCount = 0
    /\ readResult = "unread"
    /\ fin = <<>>
    /\ fout = <<>>

Next ==
    \/ ReactStart
    \/ \E w \in 1..MaxJobs : WorkerTake(w)
    \/ \E w \in 1..MaxJobs : WorkerCall(w)
    \/ ReactReturn
    \/ ReactRaise
    \/ NewCompoundsGet

Spec == Init /\ [][Next]_vars

(***************************************************************************)
(* One call of _react_single, on any pair of the cross-product, as a pool  *)
(* worker makes it on the file that holds the header.                      *)
(***************************************************************************)
InitPair ==
    /\ NoMatcher
    /\ handles = <<>>
    /\ paths = <<>>
    /\ InitConfig
    /\ new_compounds = None
    /\ file = HeaderLine
    /\ pc = "pair"
    /\ taskqueue = <<>>
    /\ worker = <<>>
    /\ poolError = "none"
    /\ callLog = {}
    /\ uuidCount = 0
    /\ readResult = "unread"
    /\ fin = <<>>
    /\ fout = <<>>

ReactSingle ==
    /\ pc = "pair"
    /\ \E k \in 1..Len(Params) :
         LET smiles == Params[k][1]
             smarts == Params[k][2]
         IN  \E results \in ReactResults(smiles, smarts) :
               LET out == _react_single(smiles, smarts, results, uuidCount)
               IN  /\ file' = file \o out.text
                   /\ uuidCount' = out.n
                   /\ callLog' = callLog \cup
                          {[smiles |-> smiles, smarts |-> smarts, exc |-> out.exc,
                            wrote |-> out.text # <<>>, seen |-> out.seen,
                            accepted |-> out.accepted]}
                   /\ poolError' = out.exc
    /\ pc' = "called"
    /\ UNCHANGED <<new_compounds, taskqueue, worker, readResult, fin, fout>>
    /\ UNCHANGED configVars
    /\ UNCHANGED <<matcherVars, handles, paths>>

NextPair == ReactSingle

SpecPair == InitPair /\ [][NextPair]_vars

(***************************************************************************)
(* Properties of the reactor.                                              *)
(***************************************************************************)
\* a pair with no valid reactant resolution: a resolved reactant does not
\* parse, the rule's pattern is invalid, or the reactants do not fit the rule
PairFails(smiles, smarts) ==
    LET reactants == ResolvedReactants(smiles, smarts)
    IN  \/ \E i \in 1..Len(reactants) : MolFromSmiles(reactants[i]) = NoneObj
        \/ smarts \in InvalidSmarts
        \/ RunReactants(smarts, reactants).type = "ValueError"

\* the call of _react_single on a pair has finished
Called(smiles, smarts) ==
    \E c \in callLog : c.smiles = smiles /\ c.smarts = smarts

\* react() has ended, by returning or by raising
ReactEnded == pc \in {"returned", "raised"}

\* the key of a row of new_compounds.tsv: (OriginalCompoundID, NewCompoundSmiles)
RowKey(row) == <<row[1], row[5]>>

\* C1: for every compound and rule, _react_single returns without raising
\* and writes no row whenever a resolved reactant fails to parse, the rule
\* pattern is invalid or the rule application fails
C1_FailedPairYieldsNothing ==
    \A c \in callLog :
        PairFails(c.smiles, c.smarts) => (c.exc = "none" /\ ~c.wrote)

\* C2: once react() has ended, a pair that failed has not aborted the run:
\* every pair of the cross-product was processed, react() returned normally
\* and new_compounds is readable
C2_FailureNeverAbortsRun ==
    (ReactEnded /\ \E k \in 1..Len(Params) : PairFails(Params[k][1], Params[k][2]))
        => /\ pc = "returned"
           /\ \A k \in 1..Len(Params) : Called(Params[k][1], Params[k][2])
           /\ readResult \in {"unread", "DataFrame"}

\* C3: once react() has ended, no two rows of the new-compounds table share
\* the same (OriginalCompoundID, NewCompoundSmiles) pair
C3_OneRowPerKey ==
    ReactEnded =>
        \A i, j \in 1..Len(FileRows) :
            i # j => RowKey(FileRows[i]) # RowKey(FileRows[j])

\* C7: a candidate whose canonical structure is a structure of the byproduct
\* reject list is rejected and no row is written for it, for every
\* min_atom_count and every pattern list
C7_ByproductNeverWritten ==
    \A c \in callLog :
        \A x \in c.accepted :
            \A j \in 1..Len(molecules_to_remove) :
                molecules_to_remove[j] # MolFromSmiles(x)

\* C10: every product structure written to the new-compounds table parses,
\* under every filter configuration and with neutralization on or off
C10_WrittenProductsParse ==
    \A i \in 1..Len(FileRows) : MolFromSmiles(FileRows[i][5]).type = "Mol"

\* C11: in _react_single a representative is accepted exactly when the
\* structure as generated, before neutralization, passes _match_conditions;
\* a row is written for every accepted representative and for no other, and
\* its product is the accepted structure, neutralized when neutralize is set
C11_DecisionBeforeNeutralization ==
    \A c \in callLog :
        /\ \A x \in c.seen : (x \in c.accepted) <=> _match_conditions(x)
        /\ Len(FileRows) = Cardinality(c.accepted)
        /\ \A i \in 1..Len(FileRows) :
               \E x \in c.accepted :
                   FileRows[i][5] = IF neutralize THEN uncharge_smiles(x) ELSE x

\* C11 happens: with neutralize set, a call rejected a charged representative
\* whose neutral form passes the filter, and wrote the row of another one
C11_Witness ==
    /\ neutralize
    /\ \E c \in callLog :
           /\ \E x \in c.seen \ c.accepted :
                  /\ x # None
                  /\ uncharge_smiles(x) # x
                  /\ _match_conditions(uncharge_smiles(x))
           /\ c.accepted # {}
    /\ Len(FileRows) > 0

\* C10 happens: with no filter stage configured, a call met a representative
\* that does not parse and wrote a row for another one
C10_Witness ==
    /\ min_atom_count = 0
    /\ Len(molecules_to_remove) = 0
    /\ Len(patterns_to_remove) = 0
    /\ \E c \in callLog : None \in c.seen /\ c.wrote
    /\ Len(FileRows) > 0

(***************************************************************************)
(* The product filter on its own: any structure under any configuration    *)
(* of the threshold and of the two reject lists.                            *)
(***************************************************************************)
\* the sequences over S of length at most n
SeqsUpTo(S, n) == UNION {[1..k -> S] : k \in 0..n}

\* the texts a byproducts file or a patterns file may list
ByproductEntries == {OO, CC, Bad}
PatternEntries == Patterns

InitFilter ==
    /\ NoMatcher
    /\ handles = <<>>
    /\ paths = <<>>
    /\ min_atom_count \in 0..MaxMinAtomCount
    /\ \E path \in SeqsUpTo(ByproductEntries, MaxList) :
           molecules_to_remove =
               load_byproducts_to_remove(IF path = <<>> THEN None ELSE path)
    /\ \E path \in SeqsUpTo(PatternEntries, MaxList) :
           patterns_to_remove =
               load_patterns_to_remove(IF path = <<>> THEN None ELSE path)
    /\ fin \in Structs \cup {None}
    /\ fout = <<>>
    /\ pc = "input"
    /\ neutralize = FALSE
    /\ n_jobs = 1
    /\ compounds = CompoundsFile
    /\ reaction_rules = RulesFile
    /\ similarity = ReactorSimilarity
    /\ new_compounds = None
    /\ file = None
    /\ taskqueue = <<>>
    /\ worker = <<>>
    /\ poolError = "none"
    /\ callLog = {}
    /\ uuidCount = 0
    /\ readResult = "unread"

\* self._match_conditions(smiles)
MatchConditions ==
    /\ pc = "input"
    /\ fout' = [accept |-> _match_conditions(fin), stage |-> RejectingStage(fin)]
    /\ pc' = "_match_conditions"
    /\ UNCHANGED <<fin, reactorVarsButPc>>
    /\ UNCHANGED configVars
    /\ UNCHANGED <<matcherVars, handles, paths>>

\* self._min_atom_count_filter(smiles), on a str
MinAtomCountFilter ==
    /\ pc = "input"
    /\ fin # None
    /\ fout' = _min_atom_count_filter(fin)
    /\ pc' = "_min_atom_count_filter"
    /\ UNCHANGED <<fin, reactorVarsButPc>>
    /\ UNCHANGED configVars
    /\ UNCHANGED <<matcherVars, handles, paths>>

\* self._match_byproducts(smiles), on a str
MatchByproducts ==
    /\ pc = "input"
    /\ fin # None
    /\ fout' = _match_byproducts(fin)
    /\ pc' = "_match_byproducts"
    /\ UNCHANGED <<fin, reactorVarsButPc>>
    /\ UNCHANGED configVars
    /\ UNCHANGED <<matcherVars, handles, paths>>

\* self._match_patterns(smiles), on a str
MatchPatterns ==
    /\ pc = "input"
    /\ fin # None
    /\ fout' = _match_patterns(fin)
    /\ pc' = "_match_patterns"
    /\ UNCHANGED <<fin, reactorVarsButPc>>
    /\ UNCHANGED configVars
    /\ UNCHANGED <<matcherVars, handles, paths>>

NextFilter ==
    \/ MatchConditions
    \/ MinAtomCountFilter
    \/ MatchByproducts
    \/ MatchPatterns

SpecFilter == InitFilter /\ [][NextFilter]_vars

\* the text parses
Parses(smiles) == smiles # None /\ MolFromSmiles(smiles).type = "Mol"

\* C8: for every structure and every configuration of the two reject lists,
\* the filter rejects the structure whenever its heavy atom count is below
\* min_atom_count; with min_atom_count = 0 the minimum-size stage rejects
\* nothing
C8_BelowThresholdRejected ==
    pc = "_match_conditions" =>
        /\ (Parses(fin) /\ HeavyAtoms(fin) < min_atom_count) => ~fout.accept
        /\ min_atom_count = 0 => fout.stage # "min_atom_count"

\* C8 happens: with both reject lists configured, a structure that parses,
\* is neither empty nor a wildcard and is below the threshold was rejected
C8_Witness ==
    /\ pc = "_match_conditions"
    /\ Len(molecules_to_remove) > 0
    /\ Len(patterns_to_remove) > 0
    /\ Parses(fin)
    /\ HeavyAtoms(fin) > 0
    /\ HeavyAtoms(fin) < min_atom_count
    /\ fout.stage = "min_atom_count"

CandidatePool == {CC, OO, CCp, pCC, Bad}
ScoredPool == {CC, OO}

InitSimilar ==
    /\ NoMatcher
    /\ handles = <<>>
    /\ paths = <<>>
    /\ \E smiles \in {CCO, Bad} :
         \E k \in 1..MaxCandidates :
           \E smiles_list \in [1..k -> CandidatePool] :
             fin = [smiles |-> smiles, smiles_list |-> smiles_list]
    /\ \E t \in [ScoredPool -> 0..MaxSim] :
           similarity = [p \in SourceSmiles \X ValidSmiles |->
                            IF p[2] \in ScoredPool THEN t[p[2]] ELSE 0]
    /\ fout = <<>>
    /\ pc = "input"
    /\ min_atom_count = 0
    /\ molecules_to_remove = <<>>
    /\ patterns_to_remove = <<>>
    /\ neutralize = FALSE
    /\ n_jobs = 1
    /\ compounds = CompoundsFile
    /\ reaction_rules = RulesFile
    /\ new_compounds = None
    /\ file = None
    /\ taskqueue = <<>>
    /\ worker = <<>>
    /\ poolError = "none"
    /\ callLog = {}
    /\ uuidCount = 0
    /\ readResult = "unread"

\* ChemUtils.most_similar_compound(smiles, smiles_list)
MostSimilarCompound ==
    /\ pc = "input"
    /\ fout' = most_similar_compound(fin.smiles, fin.smiles_list)
    /\ pc' = "most_similar_compound"
    /\ UNCHANGED <<fin, reactorVarsButPc>>
    /\ UNCHANGED configVars
    /\ UNCHANGED <<matcherVars, handles, paths>>

NextSimilar == MostSimilarCompound

SpecSimilar == InitSimilar /\ [][NextSimilar]_vars

\* the score of a candidate: RDKit's similarity to the source, 0 when the
\* source or the candidate does not parse
Score(source, candidate) ==
    IF source \in ValidSmiles /\ candidate \in ValidSmiles
    THEN similarity[<<source, candidate>>]
    ELSE 0

\* C6: most_similar_compound returns the only candidate when there is one;
\* otherwise the candidate of the highest score, the first such in list
\* order on ties, a candidate that does not parse scoring 0; the result is
\* always a member of the parenthesis-corrected list
C6_MostSimilar ==
    pc = "most_similar_compound" =>
        LET list == _correct_number_of_parenthesis(fin.smiles_list)
            score(i) == Score(fin.smiles, list[i])
        IN  /\ fout \in Range(list)
            /\ Len(list) = 1 => fout = list[1]
            /\ Len(list) > 1 =>
                   \E i \in 1..Len(list) :
                       /\ fout = list[i]
                       /\ \A j \in 1..Len(list) : score(j) <= score(i)
                       /\ \A j \in 1..(i - 1) : score(j) < score(i)

\* C6 happens: two different candidates tie for the highest score, a
\* candidate that does not parse is in the list, and the first was returned
C6_Witness ==
    /\ pc = "most_similar_compound"
    /\ Len(fin.smiles_list) >= 3
    /\ Bad \in Range(fin.smiles_list)
    /\ LET list == _correct_number_of_parenthesis(fin.smiles_list)
       IN  \E i, j \in 1..Len(list) :
               /\ i < j
               /\ list[i] # list[j]
               /\ Score(fin.smiles, list[i]) = Score(fin.smiles, list[j])
               /\ Score(fin.smiles, list[i]) > 0
               /\ \A k \in 1..Len(list) :
                      Score(fin.smiles, list[k]) <= Score(fin.smiles, list[i])
               /\ fout = list[i]

(***************************************************************************)
(* The reconciliation on its own: workers append rows, in any order, and   *)
(* process_results runs at any time between them.                          *)
(***************************************************************************)
\* the rows a run may append, without their generated id: several rules
\* that give the same product from the same compound, a rule without EC
\* numbers, and the same product from another compound
RowTemplates ==
    { [id |-> <<"a">>, smiles |-> CCO, rule |-> <<"R", "1">>, product |-> CC,
       result |-> CCO \o <<">", ">">> \o CCp \o <<".">> \o OO, ecs |-> EC1],
      [id |-> <<"a">>, smiles |-> CCO, rule |-> <<"R", "3">>, product |-> CC,
       result |-> CCO \o <<">", ">">> \o CC, ecs |-> EC2],
      [id |-> <<"a">>, smiles |-> CCO, rule |-> <<"R", "5">>, product |-> CC,
       result |-> CCO \o <<">", ">">> \o CC, ecs |-> EC1 \o <<";">> \o EC2],
      [id |-> <<"a">>, smiles |-> CCO, rule |-> <<"R", "4">>, product |-> CO,
       result |-> CCO \o <<".">> \o OO \o <<">", ">">> \o CO \o <<".">> \o OO,
       ecs |-> NaN],
      [id |-> <<"b">>, smiles |-> OC, rule |-> <<"R", "1">>, product |-> CC,
       result |-> CO \o <<">", ">">> \o CC, ecs |-> EC1] }

InitMerge ==
    /\ NoMatcher
    /\ handles = <<>>
    /\ paths = <<>>
    /\ file = HeaderLine
    /\ fin = <<>>
    /\ fout = <<>>
    /\ pc = "merge"
    /\ uuidCount = 0
    /\ min_atom_count = 0
    /\ molecules_to_remove = <<>>
    /\ patterns_to_remove = <<>>
    /\ neutralize = FALSE
    /\ n_jobs = 1
    /\ compounds = CompoundsFile
    /\ reaction_rules = RulesFile
    /\ similarity = ReactorSimilarity
    /\ new_compounds = None
    /\ taskqueue = <<>>
    /\ worker = <<>>
    /\ poolError = "none"
    /\ callLog = {}
    /\ readResult = "unread"

\* a worker appends the row of one product (the write of _react_single);
\* fin keeps the rows in the order of their arrival
AppendRow ==
    /\ Len(fin) < MaxRows
    /\ \E t \in RowTemplates :
         /\ \A i \in 1..Len(fin) : ~(fin[i][1] = t.id /\ fin[i][3] = t.rule)
         /\ LET row == FormatRow(t.id, t.smiles, t.rule, Uuid4(uuidCount + 1),
                                 t.product, t.result, t.ecs)
            IN  /\ file' = file \o row
                /\ fin' = Append(fin, Split(SubSeq(row, 1, Len(row) - 1), "\t"))
    /\ uuidCount' = uuidCount + 3
    /\ fout' = Append(fout, "append")
    /\ pc' = "appended"
    /\ UNCHANGED <<new_compounds, taskqueue, worker, poolError, callLog, readResult>>
    /\ UNCHANGED configVars
    /\ UNCHANGED <<matcherVars, handles, paths>>

\* BioReactor.process_results(): new_compounds.tsv is rewritten
ProcessResults ==
    /\ Cardinality({i \in 1..Len(fout) : fout[i] = "process"}) < MaxProcess
    /\ file' = process_results(file)
    /\ fout' = Append(fout, "process")
    /\ pc' = "processed"
    /\ UNCHANGED <<fin, uuidCount, new_compounds, taskqueue, worker, poolError,
                   callLog, readResult>>
    /\ UNCHANGED configVars
    /\ UNCHANGED <<matcherVars, handles, paths>>

NextMerge ==
    \/ AppendRow
    \/ ProcessResults

SpecMerge == InitMerge /\ [][NextMerge]_vars

\* the members of a list in the order of their first appearance
RECURSIVE FirstSeen(_)
FirstSeen(list) ==
    IF list = <<>> THEN <<>>
    ELSE LET init == SubSeq(list, 1, Len(list) - 1)
             last == list[Len(list)]
         IN  IF last \in Range(init) THEN FirstSeen(init)
             ELSE Append(FirstSeen(init), last)

\* the non-empty ;-separated entries of column c of the rows, row after row
RECURSIVE Entries(_, _)
Entries(rows, c) ==
    IF rows = <<>> THEN <<>>
    ELSE LET notEmpty(v) == v # <<>>
             field == IF Head(rows)[c] \in NaValues THEN <<>> ELSE Head(rows)[c]
         IN  SelectSeq(Split(field, ";"), notEmpty) \o Entries(Tail(rows), c)

\* the rows of a key among the given rows, in their order
RowsOfKey(rows, key) ==
    LET hasKey(row) == RowKey(row) = key
    IN  SelectSeq(rows, hasKey)

\* the file a run leaves when the rows arrive in the given order
FileOf(rows) ==
    LET RECURSIVE text(_)
        text(rs) == IF rs = <<>> THEN <<>>
                    ELSE Join(Head(rs), <<"\t">>) \o <<"\n">> \o text(Tail(rs))
    IN  HeaderLine \o text(rows)

\* the rows of a table text, each a sequence of fields
RowsOf(text) == ReadCsv(text).rows

\* C4: after process_results the rows that arrived with one key are a single
\* row: its EC_Numbers are all the contributed codes, duplicates and empty
\* entries removed, in the order of first appearance; its rule ids and its
\* reaction strings are semicolon-joined without duplicates; its
\* NewCompoundID is the first one seen; no contributed code is lost
C4_Reconciliation ==
    pc = "processed" =>
        /\ {RowKey(FileRows[i]) : i \in 1..Len(FileRows)}
               = {RowKey(fin[i]) : i \in 1..Len(fin)}
        /\ \A i \in 1..Len(FileRows) :
             LET row == FileRows[i]
                 arrived == RowsOfKey(fin, RowKey(row))
             IN  /\ Len(RowsOfKey(FileRows, RowKey(row))) = 1
                 /\ row[7] = Join(FirstSeen(Entries(arrived, 7)), <<";">>)
                 /\ row[3] = Join(FirstSeen(Entries(arrived, 3)), <<";">>)
                 /\ row[6] = Join(FirstSeen(Entries(arrived, 6)), <<";">>)
                 /\ row[4] = arrived[1][4]
                 /\ Range(Entries(arrived, 7)) \subseteq Range(Split(row[7], ";"))

\* C4 happens: a row with the code 1.1.1.1 and then a row with the code
\* 1.1.1.2 arrived for one key, and the reconciled row holds 1.1.1.1;1.1.1.2
C4_Witness ==
    /\ pc = "processed"
    /\ Len(fin) >= 2
    /\ RowKey(fin[1]) = RowKey(fin[2])
    /\ fin[1][7] = EC1
    /\ fin[2][7] = EC2
    /\ \E i \in 1..Len(FileRows) :
           /\ RowKey(FileRows[i]) = RowKey(fin[1])
           /\ FileRows[i][7] = EC1 \o <<";">> \o EC2
           /\ FileRows[i][4] = fin[1][4]

\* the reconciled fields of a table text: per key, the joined rule ids, the
\* joined reaction strings and the EC numbers
Reconciled(text) ==
    {<<RowKey(row), row[3], row[6], row[7]>> : row \in Range(RowsOf(text))}

\* the same, each joined field as the set of its entries
ReconciledSets(text) ==
    {<<RowKey(row), Range(Entries(<<row>>, 3)), Range(Entries(<<row>>, 6)),
       Range(Entries(<<row>>, 7))>> : row \in Range(RowsOf(text))}

\* the files the rows that arrived leave when they arrive in another order
ArrivalOrders ==
    {FileOf([i \in 1..Len(fin) |-> fin[order[i]]]) : order \in Perms(1..Len(fin))}

\* C5 as stated: the reconciled rows are identical (same EC numbers, same
\* joined rule ids and reaction strings) whatever the order in which the
\* rows arrived
C5_ArrivalOrderIdentical ==
    pc = "processed" =>
        \A text \in ArrivalOrders :
            Reconciled(file) = Reconciled(process_results(text))

\* per key of the rows that arrived, the sets of their rule ids, of their
\* reaction strings and of their EC numbers: nothing here depends on the
\* order of arrival
ArrivedSets ==
    {<<RowKey(row),
       Range(Entries(RowsOfKey(fin, RowKey(row)), 3)),
       Range(Entries(RowsOfKey(fin, RowKey(row)), 6)),
       Range(Entries(RowsOfKey(fin, RowKey(row)), 7))>> : row \in Range(fin)}

\* C5 amended: whatever the order in which the rows arrived, and whether
\* process_results ran once at the end or also between arrivals, the
\* reconciled rows have the same keys and, per key, the same set of EC
\* numbers, of rule ids and of reaction strings: those of the rows that
\* arrived
C5_ArrivalOrderSameSets ==
    pc = "processed" => ReconciledSets(file) = ArrivedSets

\* C5 happens: rows of one key with different EC numbers arrived before and
\* after a run of process_results, and process_results ran again
C5_Witness ==
    /\ pc = "processed"
    /\ Len(fin) = 3
    /\ fout = <<"append", "append", "process", "append", "process">>
    /\ RowKey(fin[1]) = RowKey(fin[3])
    /\ RowKey(fin[1]) = RowKey(fin[2])
    /\ fin[1][7] # fin[3][7]
    /\ fin[1][3] # fin[2][3]

(***************************************************************************)
(* Masses.  A mass is a whole number of units of 0.0001 Da, the precision  *)
(* ChemUtils.calc_exact_mass rounds to.                                    *)
(***************************************************************************)
\* a hexose, C6H12O6
Glc == <<"O", "C", "C", "1", "O", "C", "(", "O", ")", "C", "(", "O", ")",
         "C", "(", "O", ")", "C", "1", "O">>

\* the structures a mass is asked of
MassStructs == ValidSmiles \cup {Glc}

\* rdkit round(Descriptors.ExactMolWt(MolFromSmiles(s)), 4)
ExactMolWt(s) ==
    CASE s = CCO -> 460419
      [] s = CC -> 300470
      [] s = OO -> 180106
      [] s \in {CO, OC} -> 320262
      [] s = COm -> 310184
      [] s = sC -> 150235
      [] s = Glc -> 1800634
      [] OTHER -> 0

\* a Python number or None: a float of so many units, the float nan, None
Float(v) == [type |-> "float", nan |-> FALSE, val |-> v]
FloatNaN == [type |-> "float", nan |-> TRUE, val |-> 0]
NoneMass == [type |-> "NoneType", nan |-> FALSE, val |-> 0]

\* Python's truth value of a float or None: None and 0.0 are false
Truthy(x) == x.type = "float" /\ (x.nan \/ x.val # 0)

\* abs(x)
Abs(x) == IF x < 0 THEN -x ELSE x

\* ChemUtils.calc_exact_mass: None when the text does not parse
calc_exact_mass(smiles) ==
    IF smiles \in MassStructs THEN Float(ExactMolWt(smiles)) ELSE NoneMass

\* a Python list of floats
FloatList(l) == [type |-> "list", val |-> l]

\* ChemUtils.match_masses: the pair (any_found, mass); masses is a list of
\* floats or None
match_masses(smiles, masses, mass_tolerance) ==
    LET mass == calc_exact_mass(smiles)
    IN  IF masses.type = "NoneType" THEN <<TRUE, mass>>
        ELSE IF Truthy(mass)
        THEN <<\E i \in 1..Len(masses.val) :
                   /\ mass.val - mass_tolerance <= masses.val[i]
                   /\ masses.val[i] <= mass.val + mass_tolerance,
               mass>>
        ELSE <<FALSE, mass>>

(***************************************************************************)
(* ChemUtils.match_masses on its own: any structure against any list of    *)
(* reference masses.                                                       *)
(***************************************************************************)
MaxMasses == 2

\* a tolerance of 0.02 Da
Tol002 == 200

Tolerances == {0, Tol002}

\* the structures asked: ethane, the empty molecule, a text that does not parse
MassSmiles == {CC, Empty, Bad}

\* the reference masses: at ethane's mass, at the tolerance and just out of it
MassPool ==
    {0, ExactMolWt(CC), ExactMolWt(CC) + Tol002, ExactMolWt(CC) - Tol002,
     ExactMolWt(CC) + Tol002 + 1}

InitMasses ==
    /\ NoMatcher
    /\ handles = <<>>
    /\ paths = <<>>
    /\ \E smiles \in MassSmiles,
          masses \in {FloatList(l) : l \in SeqsUpTo(MassPool, MaxMasses)}
                         \cup {NoneObj},
          mass_tolerance \in Tolerances :
           fin = [smiles |-> smiles, masses |-> masses,
                  mass_tolerance |-> mass_tolerance]
    /\ fout = <<>>
    /\ pc = "input"
    /\ min_atom_count = 0
    /\ molecules_to_remove = <<>>
    /\ patterns_to_remove = <<>>
    /\ neutralize = FALSE
    /\ n_jobs = 1
    /\ compounds = CompoundsFile
    /\ reaction_rules = RulesFile
    /\ similarity = ReactorSimilarity
    /\ new_compounds = None
    /\ file = None
    /\ taskqueue = <<>>
    /\ worker = <<>>
    /\ poolError = "none"
    /\ callLog = {}
    /\ uuidCount = 0
    /\ readResult = "unread"

\* ChemUtils.match_masses(smiles, masses, mass_tolerance)
MatchMasses ==
    /\ pc = "input"
    /\ fout' = match_masses(fin.smiles, fin.masses, fin.mass_tolerance)
    /\ pc' = "match_masses"
    /\ UNCHANGED <<fin, reactorVarsButPc>>
    /\ UNCHANGED configVars
    /\ UNCHANGED <<matcherVars, handles, paths>>

\* ChemUtils.calc_exact_mass(smiles)
CalcExactMass ==
    /\ pc = "input"
    /\ fout' = calc_exact_mass(fin.smiles)
    /\ pc' = "calc_exact_mass"
    /\ UNCHANGED <<fin, reactorVarsButPc>>
    /\ UNCHANGED configVars
    /\ UNCHANGED <<matcherVars, handles, paths>>

NextMasses ==
    \/ MatchMasses
    \/ CalcExactMass

SpecMasses == InitMasses /\ [][NextMasses]_vars

\* C13: for a structure whose mass M can be computed and a list of reference
\* masses, match_masses reports a match exactly when some reference mass M0
\* has |M - M0| <= tolerance, both bounds included
C13_InclusiveMassMatch ==
    (/\ pc = "match_masses"
     /\ fin.masses.type = "list"
     /\ calc_exact_mass(fin.smiles).type = "float")
        => (fout[1] <=>
               \E i \in 1..Len(fin.masses.val) :
                   Abs(calc_exact_mass(fin.smiles).val - fin.masses.val[i])
                       <= fin.mass_tolerance)

(***************************************************************************)
(* The files of the matcher and their loaders.                             *)
(***************************************************************************)
\* a table file: whether the path exists, its columns, its rows
TableFile(columns, rows) == [exists |-> TRUE, columns |-> columns, rows |-> rows]
MissingFile == [exists |-> FALSE, columns |-> {}, rows |-> <<>>]

\* the outcome of a call: the exception raised ("none": it returned) and
\* the value returned
Returned(v) == [exc |-> "none", val |-> v]
Raised(e) == [exc |-> e, val |-> <<>>]

\* Loaders.load_ms_data
load_ms_data(path, mode) ==
    IF ~path.exists THEN Raised("FileNotFoundError")
    ELSE IF "ParentCompound" \notin path.columns THEN Raised("ValueError")
    ELSE IF "ParentCompoundSmiles" \notin path.columns THEN Raised("ValueError")
    ELSE IF mode = "mass" /\ "Mass" \notin path.columns THEN Raised("ValueError")
    ELSE IF mode = "mass_diff" /\ "MassDiff" \notin path.columns
         THEN Raised("ValueError")
    ELSE IF mode \notin {"mass", "mass_diff"} THEN Raised("ValueError")
    ELSE Returned(path.rows)

\* Loaders.load_new_compounds
load_new_compounds(path) ==
    IF ~path.exists THEN Raised("FileNotFoundError")
    ELSE IF ~(Range(Columns) \subseteq path.columns) THEN Raised("ValueError")
    ELSE Returned(path.rows)

\* the output directories: whether the directory exists and, per file it
\* holds, the name and the content
NoDir == [exists |-> FALSE, files |-> {}]
Dir(files) == [exists |-> TRUE, files |-> files]
FileNames(d) == {f.name : f \in d.files}

\* MSDataMatcher._set_output_path: the directories after the call, or
\* FileExistsError
MatcherSetOutputPath(d, path) ==
    IF ~d[path].exists
    THEN Returned([d EXCEPT ![path] = Dir({})])
    ELSE IF "matches.tsv" \in FileNames(d[path])
         THEN Raised("FileExistsError")
         ELSE Returned(d)

\* pandas, a list of floats and None as a column: float64 with nan for None,
\* unless the list holds no float at all
AsColumn(values) ==
    IF \E i \in 1..Len(values) : values[i].type = "float"
    THEN [i \in 1..Len(values) |->
             IF values[i].type = "NoneType" THEN FloatNaN ELSE values[i]]
    ELSE values

\* Python's a - b on floats and None: TypeError when one of them is None
Minus(a, b) ==
    IF a.type # "float" \/ b.type # "float" THEN Raised("TypeError")
    ELSE IF a.nan \/ b.nan THEN Returned(FloatNaN)
    ELSE Returned(Float(a.val - b.val))

\* MSDataMatcher._prepare_mode: the new compounds with their mass columns
_prepare_mode(mode, compounds_to_match) ==
    LET n == Len(compounds_to_match)
        masses == AsColumn([i \in 1..n |->
                      calc_exact_mass(compounds_to_match[i].NewCompoundSmiles)])
        diffs == [i \in 1..n |->
                     Minus(calc_exact_mass(compounds_to_match[i].OriginalCompoundSmiles),
                           calc_exact_mass(compounds_to_match[i].NewCompoundSmiles))]
    IN  IF mode = "mass"
        THEN Returned([ms_field |-> "Mass",
                       table |-> [i \in 1..n |->
                           [row |-> compounds_to_match[i],
                            NewCompoundExactMass |-> masses[i],
                            NewCompoundExactMassDiff |-> NoneMass]]])
        ELSE IF mode = "mass_diff"
        THEN IF \E i \in 1..n : diffs[i].exc # "none" THEN Raised("TypeError")
             ELSE Returned([ms_field |-> "MassDiff",
                            table |-> [i \in 1..n |->
                                [row |-> compounds_to_match[i],
                                 NewCompoundExactMass |-> masses[i],
                                 NewCompoundExactMassDiff |->
                                     AsColumn([j \in 1..n |-> diffs[j].val])[i]]]])
        ELSE Raised("ValueError")

(***************************************************************************)
(* MSDataMatcher.                                                          *)
(***************************************************************************)
\* the reference value is within the tolerance of v, both bounds included
Within(v, value, tol) ==
    /\ v.type = "float" /\ ~v.nan
    /\ value.type = "float" /\ ~value.nan
    /\ Abs(v.val - value.val) <= tol

\* biocatalyzer._utils.match_value, as MSDataMatcher unpacks it: whether a
\* reference value is within the tolerance of v, and the index of the first
\* such value; a mass that could not be computed matches nothing
match_value(v, values, tol) ==
    IF \E i \in 1..Len(values) : Within(v, values[i], tol)
    THEN <<TRUE, CHOOSE i \in 1..Len(values) :
                     /\ Within(v, values[i], tol)
                     /\ \A j \in 1..(i - 1) : ~Within(v, values[j], tol)>>
    ELSE <<FALSE, 0>>

\* list[:-1]
ButLast(l) == SubSeq(l, 1, Len(l) - 1)

\* '_'.join(NewCompoundID.split('_')[:-1]), the gate of _match_masses
ParentOfMass(NewCompoundID) == Join(ButLast(Split(NewCompoundID, "_")), <<"_">>)

\* NewCompoundID.split('_')[0], the gate of _match_mass_diff
ParentOfMassDiff(NewCompoundID) == Split(NewCompoundID, "_")[1]

\* the rows of the matches table a loop leaves, product by product
RECURSIVE MatchLoop(_, _, _, _, _)
MatchLoop(mode, table, ms_data, tolerance, i) ==
    IF i > Len(table) THEN <<>>
    ELSE
      LET r == table[i]
          field == IF mode = "mass" THEN "Mass" ELSE "MassDiff"
          v == IF mode = "mass" THEN r.NewCompoundExactMass
               ELSE r.NewCompoundExactMassDiff
          m == match_value(v, [k \in 1..Len(ms_data) |-> ms_data[k][field]],
                           tolerance)
          mv == m[1]
          mi == m[2]
          parent == IF mode = "mass" THEN ParentOfMass(r.row.NewCompoundID)
                    ELSE ParentOfMassDiff(r.row.NewCompoundID)
          rest == MatchLoop(mode, table, ms_data, tolerance, i + 1)
      IN  IF mv /\ ms_data[mi].ParentCompound = parent
          THEN << [ParentCompound |-> ms_data[mi].ParentCompound,
                   ParentCompoundSmiles |-> ms_data[mi].ParentCompoundSmiles,
                   ParentCompound_ExactMass |->
                       calc_exact_mass(ms_data[mi].ParentCompoundSmiles),
                   ms_field |-> ms_data[mi][field],
                   NewCompoundID |-> r.row.NewCompoundID,
                   NewCompoundSmiles |-> r.row.NewCompoundSmiles,
                   NewCompoundExactMass |-> r.NewCompoundExactMass,
                   NewCompoundExactMassDiff |-> r.NewCompoundExactMassDiff,
                   EC_Numbers |-> r.row.EC_Numbers] >> \o rest
          ELSE rest

\* MSDataMatcher._match_masses
_match_masses(m) == MatchLoop("mass", m.new_compounds, m.ms_data, m.tolerance, 1)

\* MSDataMatcher._match_mass_diff
_match_mass_diff(m) ==
    MatchLoop("mass_diff", m.new_compounds, m.ms_data, m.tolerance, 1)

\* MSDataMatcher.__init__: the object and the directories it leaves, or the
\* exception it raises
MSDataMatcher(ms_data_path, path, compounds_to_match, mode, tolerance, d) ==
    LET ms == load_ms_data(ms_data_path, mode)
        out == MatcherSetOutputPath(d, path)
        cmp == load_new_compounds(compounds_to_match)
        prepared == _prepare_mode(mode, cmp.val)
    IN  IF ms.exc # "none" THEN [exc |-> ms.exc, obj |-> None, disk |-> d]
        ELSE IF out.exc # "none" THEN [exc |-> out.exc, obj |-> None, disk |-> d]
        ELSE IF cmp.exc # "none" THEN [exc |-> cmp.exc, obj |-> None, disk |-> out.val]
        ELSE IF prepared.exc # "none"
             THEN [exc |-> prepared.exc, obj |-> None, disk |-> out.val]
        ELSE [exc |-> "none",
              obj |-> [ms_data |-> ms.val, output_path |-> path,
                       mode |-> mode, tolerance |-> tolerance,
                       ms_field |-> prepared.val.ms_field,
                       new_compounds |-> prepared.val.table,
                       matches |-> NoneObj],
              disk |-> out.val]

(***************************************************************************)
(* The matcher on the tables of a run: it is constructed on an MS data     *)
(* file and a new-compounds file, then generate_ms_results is called.      *)
(***************************************************************************)
MaxRefs == 2
MaxProducts == 2

\* the sequences of at most n distinct members of S
InjSeqs(S, n) ==
    {q \in SeqsUpTo(S, n) : \A i, j \in 1..Len(q) : i # j => q[i] # q[j]}

\* the id load_compounds gives a compound passed as SMILES
InputCompound0 == <<"i", "n", "p", "u", "t", "_", "c", "o", "m", "p", "o", "u", "n", "d", "_", "0">>

\* the exact mass of the hexose, and of ethanol less ethane
MassGlc == ExactMolWt(Glc)
DiffGlc == ExactMolWt(CCO) - ExactMolWt(Glc)
DiffCC == ExactMolWt(CCO) - ExactMolWt(CC)

\* a row of the MS data: both value columns are filled
RefRow(parent, mass, diff) ==
    [ParentCompound |-> parent, ParentCompoundSmiles |-> CCO,
     Mass |-> Float(mass), MassDiff |-> Float(diff)]

\* the rows an MS data file may hold: for the parent a, masses 0.0166 above,
\* 0.0134 below and 0.0366 above the hexose; the hexose's mass for another
\* parent; ethane's mass for the parent input_compound_0
RefRows ==
    {RefRow(<<"a">>, MassGlc + 166, DiffGlc + 166),
     RefRow(<<"a">>, MassGlc - 134, DiffGlc - 134),
     RefRow(<<"a">>, MassGlc + 366, DiffGlc + 366),
     RefRow(<<"b">>, MassGlc, DiffGlc),
     RefRow(InputCompound0, ExactMolWt(CC), DiffCC)}

\* a row of new_compounds.tsv as the reactor writes it
ProductRow(smiles_id, n, product) ==
    [OriginalCompoundID |-> smiles_id, OriginalCompoundSmiles |-> CCO,
     OriginalReactionRuleID |-> <<"R", "1">>,
     NewCompoundID |-> smiles_id \o <<"_">> \o Uuid4(n),
     NewCompoundSmiles |-> product,
     NewReactionSmiles |-> CCO \o <<">", ">">> \o product,
     EC_Numbers |-> EC1]

\* the rows a new-compounds file may hold: the hexose from a, ethane from
\* input_compound_0, and a product of a whose text does not parse
ProductRows ==
    {ProductRow(<<"a">>, 1, Glc), ProductRow(InputCompound0, 2, CC),
     ProductRow(<<"a">>, 3, Bad)}

MsColumns == {"ParentCompound", "ParentCompoundSmiles", "Mass", "MassDiff"}

MsFiles ==
    {TableFile(MsColumns, rows) : rows \in InjSeqs(RefRows, MaxRefs)}
        \cup {MissingFile, TableFile(MsColumns \ {"MassDiff"}, <<>>)}

NewCompoundsFiles ==
    {TableFile(Range(Columns), rows) : rows \in InjSeqs(ProductRows, MaxProducts)}
        \cup {MissingFile, TableFile({<<"smiles">>}, <<>>)}

Modes == {"mass", "mass_diff", "mass_dif"}

InitMatch ==
    /\ matcher = None
    /\ handles = <<>>
    /\ paths = <<>>
    /\ disk = [d \in {"out"} |-> Dir({})]
    /\ cli = None
    /\ output_path = None
    /\ fin = <<>>
    /\ fout = "none"
    /\ pc = "new"
    /\ min_atom_count = 0
    /\ molecules_to_remove = <<>>
    /\ patterns_to_remove = <<>>
    /\ neutralize = FALSE
    /\ n_jobs = 1
    /\ compounds = CompoundsFile
    /\ reaction_rules = RulesFile
    /\ similarity = ReactorSimilarity
    /\ new_compounds = None
    /\ file = None
    /\ taskqueue = <<>>
    /\ worker = <<>>
    /\ poolError = "none"
    /\ callLog = {}
    /\ uuidCount = 0
    /\ readResult = "unread"

\* MSDataMatcher(ms_data_path, output_path, compounds_to_match, mode, tolerance)
MatcherNew ==
    /\ pc = "new"
    /\ \E ms_data_path \in MsFiles, compounds_to_match \in NewCompoundsFiles,
          mode \in Modes, tolerance \in Tolerances :
           LET r == MSDataMatcher(ms_data_path, "out", compounds_to_match, mode,
                                  tolerance, disk)
           IN  /\ fin' = [ms_data_path |-> ms_data_path,
                          compounds_to_match |-> compounds_to_match,
                          mode |-> mode, tolerance |-> tolerance]
               /\ matcher' = r.obj
               /\ disk' = r.disk
               /\ fout' = r.exc
               /\ pc' = IF r.exc = "none" THEN "constructed" ELSE "raised"
    /\ UNCHANGED <<cli, output_path, reactorVarsButPc, handles, paths>>
    /\ UNCHANGED configVars

\* MSDataMatcher.generate_ms_results: the matches and the file matches.tsv
GenerateMsResults ==
    /\ pc = "constructed"
    /\ LET rows == IF matcher.mode = "mass" THEN _match_masses(matcher)
                   ELSE _match_mass_diff(matcher)
       IN  /\ matcher' = [matcher EXCEPT
                             !.matches = [type |-> "DataFrame", val |-> rows]]
           /\ disk' = [disk EXCEPT ![matcher.output_path] =
                          Dir({f \in @.files : f.name # "matches.tsv"}
                                  \cup {[name |-> "matches.tsv", content |-> rows]})]
    /\ pc' = "generated"
    /\ UNCHANGED <<cli, output_path, fin, fout, reactorVarsButPc, handles, paths>>
    /\ UNCHANGED configVars

NextMatch ==
    \/ MatcherNew
    \/ GenerateMsResults

SpecMatch == InitMatch /\ [][NextMatch]_vars

(***************************************************************************)
(* The output directory: constructing a reactor or a matcher on a          *)
(* directory and assigning output_path, on directories in any state.       *)
(***************************************************************************)
\* _set_output_path that looks for results.tsv only
SetOutputPathResultsOnly(d, path) ==
    IF ~d[path].exists
    THEN Returned([d EXCEPT ![path] = Dir({})])
    ELSE IF "results.tsv" \in FileNames(d[path])
         THEN Raised("FileExistsError")
         ELSE Returned(d)

\* BioReactor._set_output_path: the directories after the call, or
\* FileExistsError
_set_output_path(d, path) ==
    IF ~d[path].exists
    THEN Returned([d EXCEPT ![path] = Dir({})])
    ELSE IF \/ "results.tsv" \in FileNames(d[path])
            \/ "new_compounds.tsv" \in FileNames(d[path])
         THEN Raised("FileExistsError")
         ELSE Returned(d)

Dirs == {"out", "other"}
ResultFiles == {"results.tsv", "new_compounds.tsv", "matches.tsv"}

\* a result file a prior run left
PriorFile(name) == [name |-> name, content |-> "prior"]

\* the states a directory may be in before the operation
DirStates == {NoDir} \cup {Dir({PriorFile(n) : n \in S}) : S \in SUBSET ResultFiles}

\* valid files for a matcher
GoodMsFile == TableFile(MsColumns, <<RefRow(<<"a">>, MassGlc, DiffGlc)>>)
GoodNewCompoundsFile == TableFile(Range(Columns), <<ProductRow(<<"a">>, 1, Glc)>>)

InitOutput ==
    /\ matcher = None
    /\ handles = <<>>
    /\ paths = <<>>
    /\ disk \in [Dirs -> DirStates]
    /\ cli = None
    /\ output_path = None
    /\ fin = <<>>
    /\ fout = "none"
    /\ pc = "new"
    /\ min_atom_count = 0
    /\ molecules_to_remove = <<>>
    /\ patterns_to_remove = <<>>
    /\ neutralize = FALSE
    /\ n_jobs = 1
    /\ compounds = CompoundsFile
    /\ reaction_rules = RulesFile
    /\ similarity = ReactorSimilarity
    /\ new_compounds = None
    /\ file = None
    /\ taskqueue = <<>>
    /\ worker = <<>>
    /\ poolError = "none"
    /\ callLog = {}
    /\ uuidCount = 0
    /\ readResult = "unread"

\* what every operation on the output path records: the operation, the
\* path, the directories before it, the exception
OutputOp(op, path, r) ==
    /\ fin' = [op |-> op, output_path |-> path, before |-> disk]
    /\ fout' = r.exc
    /\ disk' = IF r.exc = "none" THEN r.val ELSE disk

\* BioReactor(..., output_path=path, ...), its other arguments valid
ReactorNew ==
    /\ pc = "new"
    /\ \E path \in Dirs :
         LET r == _set_output_path(disk, path)
         IN  /\ OutputOp("BioReactor", path, r)
             /\ output_path' = IF r.exc = "none" THEN path ELSE output_path
             /\ pc' = IF r.exc = "none" THEN "reactor" ELSE "raised"
    /\ UNCHANGED <<matcher, cli, reactorVarsButPc, handles, paths>>
    /\ UNCHANGED configVars

\* br.output_path = path: the setter checks the path and keeps the old one
ReactorSetOutput ==
    /\ pc = "reactor"
    /\ \E path \in Dirs :
         OutputOp("BioReactor.output_path", path, _set_output_path(disk, path))
    /\ pc' = "reactor_set"
    /\ UNCHANGED <<matcher, cli, output_path, reactorVarsButPc, handles, paths>>
    /\ UNCHANGED configVars

\* MSDataMatcher(..., output_path=path, ...), its other arguments valid
MatcherNewOn ==
    /\ pc = "new"
    /\ \E path \in Dirs :
         LET r == MSDataMatcher(GoodMsFile, path, GoodNewCompoundsFile, "mass",
                                Tol002, disk)
         IN  /\ OutputOp("MSDataMatcher", path, [exc |-> r.exc, val |-> r.disk])
             /\ matcher' = r.obj
             /\ pc' = IF r.exc = "none" THEN "matcher" ELSE "raised"
    /\ UNCHANGED <<cli, output_path, reactorVarsButPc, handles, paths>>
    /\ UNCHANGED configVars

\* ms.output_path = path: the setter stores the path, then checks it
MatcherSetOutput ==
    /\ pc = "matcher"
    /\ \E path \in Dirs :
         /\ matcher' = [matcher EXCEPT !.output_path = path]
         /\ OutputOp("MSDataMatcher.output_path", path,
                     MatcherSetOutputPath(disk, path))
    /\ pc' = "matcher_set"
    /\ UNCHANGED <<cli, output_path, reactorVarsButPc, handles, paths>>
    /\ UNCHANGED configVars

NextOutput ==
    \/ ReactorNew
    \/ ReactorSetOutput
    \/ MatcherNewOn
    \/ MatcherSetOutput

SpecOutput == InitOutput /\ [][NextOutput]_vars

\* the directory holds prior results of the class the operation belongs to
HoldsPriorResults(op, d) ==
    /\ d.exists
    /\ op \in {"BioReactor", "BioReactor.output_path"} =>
           FileNames(d) \cap {"results.tsv", "new_compounds.tsv"} # {}
    /\ op \in {"MSDataMatcher", "MSDataMatcher.output_path"} =>
           "matches.tsv" \in FileNames(d)

\* C16: constructing a BioReactor or an MSDataMatcher (its other arguments
\* valid) on an existing directory that holds prior results, or assigning
\* output_path to such a directory, raises FileExistsError and leaves every
\* directory and every file as it was
C16_OutputCollision ==
    (pc # "new" /\ HoldsPriorResults(fin.op, fin.before[fin.output_path]))
        => (fout = "FileExistsError" /\ disk = fin.before)

\* C16 happens: output_path of a reactor was assigned a directory that holds
\* new_compounds.tsv and no results.tsv
C16_Witness ==
    /\ pc = "reactor_set"
    /\ fin.op = "BioReactor.output_path"
    /\ FileNames(fin.before[fin.output_path]) = {"new_compounds.tsv"}
    /\ fout = "FileExistsError"

(***************************************************************************)
(* biocatalyzer_cli: the reactor is constructed from the arguments, react  *)
(* runs on its pool, then the MS data arguments are looked at.             *)
(***************************************************************************)
\* the columns of a compounds file and of a reaction rules file
CompoundsColumns == {<<"compound_id">>, <<"smiles">>}
RulesColumns ==
    {<<"InternalID">>, <<"Reactants">>, <<"SMARTS">>, <<"EC_Numbers">>,
     <<"Organisms">>}

\* Loaders.load_compounds of a path: a file with its two columns; a path
\* that is no file and no SMILES is not found
LoadCompoundsPath(path) ==
    IF path.exists
    THEN IF <<"smiles">> \notin path.columns THEN Raised("ValueError")
         ELSE IF <<"compound_id">> \notin path.columns THEN Raised("ValueError")
         ELSE Returned(path.rows)
    ELSE Raised("FileNotFoundError")

\* Loaders.load_reaction_rules of a path, for the organisms asked
LoadRulesPath(path, orgs) ==
    IF ~path.exists THEN Raised("FileNotFoundError")
    ELSE IF ~(RulesColumns \subseteq path.columns) THEN Raised("ValueError")
    ELSE Returned(load_reaction_rules(path.rows, orgs))

\* BioReactor.__init__ on the arguments of the command line: the exception
\* it raises, the tables it loads and the directories it leaves
BioReactorInit(a, d) ==
    LET rules == LoadRulesPath(a.reaction_rules, load_organisms(a.organisms))
        out == _set_output_path(d, a.output_path)
        cmp == LoadCompoundsPath(a.compounds)
    IN  IF rules.exc # "none"
        THEN [exc |-> rules.exc, disk |-> d, rules |-> <<>>, compounds |-> <<>>]
        ELSE IF out.exc # "none"
        THEN [exc |-> out.exc, disk |-> d, rules |-> <<>>, compounds |-> <<>>]
        ELSE IF cmp.exc # "none"
        THEN [exc |-> cmp.exc, disk |-> out.val, rules |-> <<>>, compounds |-> <<>>]
        ELSE [exc |-> "none", disk |-> out.val, rules |-> rules.val,
              compounds |-> cmp.val]

\* the arguments a run of the command line may be given
CliCompounds ==
    {TableFile(CompoundsColumns, CompoundsFile), MissingFile,
     TableFile({<<"compound_id">>}, <<>>)}
CliRules == {TableFile(RulesColumns, RulesFile), MissingFile}
CliOutputDirs == {NoDir, Dir({}), Dir({PriorFile("new_compounds.tsv")})}
\* --ms_data_path: not given (None), or the path of a file
CliMsDataPaths ==
    {[given |-> FALSE, file |-> MissingFile], [given |-> TRUE, file |-> GoodMsFile]}

\* organisms and min_atom_count: no filter at all, or the organism e with
\* products of three heavy atoms at least
CliFilters == {<<None, 0>>, <<<<"e">>, MaxMinAtomCount>>}

CliArgs ==
    {[compounds |-> c, output_path |-> "out", reaction_rules |-> r,
      organisms |-> f[1], min_atom_count |-> f[2], n_jobs |-> n,
      match_ms_data |-> m, ms_data_path |-> p, mode |-> "mass",
      tolerance |-> Tol002, exc |-> "none"] :
        c \in CliCompounds, r \in CliRules, f \in CliFilters, n \in 1..MaxJobs,
        m \in BOOLEAN, p \in CliMsDataPaths}

\* the command line is entered: no reactor exists yet
InitCli ==
    /\ cli \in CliArgs
    /\ disk \in [{"out"} -> CliOutputDirs]
    /\ matcher = None
    /\ handles = <<>>
    /\ paths = <<>>
    /\ output_path = None
    /\ pc = "cli"
    /\ min_atom_count = 0
    /\ molecules_to_remove = <<>>
    /\ patterns_to_remove = <<>>
    /\ neutralize = FALSE
    /\ n_jobs = 1
    /\ compounds = <<>>
    /\ reaction_rules = <<>>
    /\ similarity = ReactorSimilarity
    /\ new_compounds = None
    /\ file = None
    /\ taskqueue = <<>>
    /\ worker = <<>>
    /\ poolError = "none"
    /\ callLog = {}
    /\ uuidCount = 0
    /\ readResult = "unread"
    /\ fin = <<>>
    /\ fout = <<>>

\* br = BioReactor(...): a configuration error ends the run
CliBioReactor ==
    /\ pc = "cli"
    /\ LET r == BioReactorInit(cli, disk)
       IN  /\ disk' = r.disk
           /\ cli' = [cli EXCEPT !.exc = r.exc]
           /\ pc' = IF r.exc = "none" THEN "idle" ELSE "config_error"
           /\ compounds' = r.compounds
           /\ reaction_rules' = r.rules
           /\ min_atom_count' = IF r.exc = "none" THEN cli.min_atom_count
                                ELSE min_atom_count
           /\ n_jobs' = IF r.exc = "none" THEN cli.n_jobs ELSE n_jobs
           /\ output_path' = IF r.exc = "none" THEN cli.output_path ELSE output_path
    /\ UNCHANGED <<molecules_to_remove, patterns_to_remove, neutralize, similarity,
                   matcher, fin, fout, reactorVarsButPc, handles, paths>>

\* after brr = br.react() returned: the MS data arguments; react() returns
\* None, so the matcher is never constructed
CliMatch ==
    /\ pc = "returned"
    /\ LET brr == NoneObj
       IN  IF cli.match_ms_data
           THEN IF ~cli.ms_data_path.given
                THEN /\ cli' = [cli EXCEPT !.exc = "ValueError"]
                     /\ pc' = "config_error"
                     /\ UNCHANGED <<matcher, disk>>
                ELSE IF brr.type = "NoneType"
                THEN /\ pc' = "done"
                     /\ UNCHANGED <<cli, matcher, disk>>
                ELSE LET r == MSDataMatcher(cli.ms_data_path.file, cli.output_path,
                                            GoodNewCompoundsFile, cli.mode,
                                            cli.tolerance, disk)
                     IN  /\ matcher' = r.obj
                         /\ disk' = r.disk
                         /\ cli' = [cli EXCEPT !.exc = r.exc]
                         /\ pc' = IF r.exc = "none" THEN "done" ELSE "config_error"
           ELSE /\ pc' = "done"
                /\ UNCHANGED <<cli, matcher, disk>>
    /\ UNCHANGED <<output_path, fin, fout, reactorVarsButPc, handles, paths>>
    /\ UNCHANGED configVars

NextCli ==
    \/ CliBioReactor
    \/ ReactStart
    \/ \E w \in 1..MaxJobs : WorkerTake(w)
    \/ \E w \in 1..MaxJobs : WorkerCall(w)
    \/ ReactReturn
    \/ ReactRaise
    \/ CliMatch

SpecCli == InitCli /\ [][NextCli]_vars

\* C17: when a run ends with a configuration error (a missing column, a
\* path that does not exist, an output collision, no ms_data_path although
\* match_ms_data was asked), no (compound, rule) invocation has run and no
\* output file has been written
C17_ConfigErrorsBeforeWork ==
    pc = "config_error" => (callLog = {} /\ file = None)

\* C18: when react() has ended with an error part-way through the pairs, no
\* new_compounds.tsv is left in the output directory
C18_NoPartialOutput == pc = "raised" => file = None

(***************************************************************************)
(* The appends of concurrent workers: every call of _react_single opens    *)
(* new_compounds.tsv in append mode, writes the row to the file object and *)
(* leaves the with block, which closes the file.                           *)
(***************************************************************************)
\* a file object that is not open
Closed == [state |-> "closed", pending |-> <<>>, call |-> <<>>]

\* the write(2) calls a file object makes for the text written to it: the
\* text stays in the buffer until the file is closed and goes out in pieces
UnbufferedWrites(text) ==
    LET fields == Split(text, "\t")
    IN  [i \in 1..Len(fields) |->
            IF i < Len(fields) THEN fields[i] \o <<"\t">> ELSE fields[i]]

\* the write(2) calls a file object makes for the text written to it:
\* f.write keeps the row in the buffer and the close at the end of the with
\* block hands the whole buffer to one write(2)
BufferedWrites(text) == IF text = <<>> THEN <<>> ELSE <<text>>

\* react() has been called on a reactor with two workers at least
InitAppend ==
    /\ NoMatcher
    /\ n_jobs \in 2..MaxJobs
    /\ handles = [w \in 1..n_jobs |-> Closed]
    /\ paths = <<>>
    /\ min_atom_count \in {0, MaxMinAtomCount}
    /\ molecules_to_remove = <<>>
    /\ patterns_to_remove = <<>>
    /\ neutralize = FALSE
    /\ compounds = <<CompoundsFile[1]>>
    /\ \E path \in OrganismsPaths :
           reaction_rules = load_reaction_rules(RulesFile, load_organisms(path))
    /\ similarity = ReactorSimilarity
    /\ new_compounds = None
    /\ file = None
    /\ pc = "idle"
    /\ taskqueue = <<>>
    /\ worker = <<>>
    /\ poolError = "none"
    /\ callLog = {}
    /\ uuidCount = 0
    /\ readResult = "unread"
    /\ fin = <<>>
    /\ fout = <<>>

\* a worker runs _react_single on the next pair of its chunk up to the end
\* of f.write: the row is in the buffer of the file object
CallWrite(w) ==
    /\ pc = "running"
    /\ w \in DOMAIN worker
    /\ worker[w] # <<>>
    /\ handles[w].state = "closed"
    /\ LET smiles == Head(worker[w])[1]
           smarts == Head(worker[w])[2]
       IN  \E results \in ReactResults(smiles, smarts) :
             LET out == _react_single(smiles, smarts, results, uuidCount)
             IN  /\ uuidCount' = out.n
                 /\ handles' = [handles EXCEPT ![w] =
                        [state |-> "open", pending |-> BufferedWrites(out.text),
                         call |-> [smiles |-> smiles, smarts |-> smarts,
                                   exc |-> out.exc, text |-> out.text]]]
    /\ UNCHANGED <<new_compounds, file, pc, taskqueue, worker, poolError, callLog,
                   readResult, fin, fout>>
    /\ UNCHANGED configVars
    /\ UNCHANGED <<matcherVars, paths>>

\* one write(2) of a file opened in append mode: the bytes go to the end of
\* the file as it is at that moment
OsWrite(w) ==
    /\ pc = "running"
    /\ w \in DOMAIN handles
    /\ handles[w].state = "open"
    /\ handles[w].pending # <<>>
    /\ file' = file \o Head(handles[w].pending)
    /\ handles' = [handles EXCEPT ![w].pending = Tail(@)]
    /\ UNCHANGED <<new_compounds, pc, taskqueue, worker, poolError, callLog,
                   uuidCount, readResult, fin, fout>>
    /\ UNCHANGED configVars
    /\ UNCHANGED <<matcherVars, paths>>

\* the file is closed and the call ends; an exception ends the chunk and the
\* pool keeps the first one reported
CallEnd(w) ==
    /\ pc = "running"
    /\ w \in DOMAIN handles
    /\ handles[w].state = "open"
    /\ handles[w].pending = <<>>
    /\ callLog' = callLog \cup {handles[w].call}
    /\ worker' = [worker EXCEPT ![w] =
           IF handles[w].call.exc = "none" THEN Tail(worker[w]) ELSE <<>>]
    /\ poolError' = IF poolError = "none" THEN handles[w].call.exc ELSE poolError
    /\ handles' = [handles EXCEPT ![w] = Closed]
    /\ UNCHANGED <<new_compounds, file, pc, taskqueue, uuidCount, readResult,
                   fin, fout>>
    /\ UNCHANGED configVars
    /\ UNCHANGED <<matcherVars, paths>>

NextAppend ==
    \/ ReactStart
    \/ \E w \in 1..MaxJobs : WorkerTake(w)
    \/ \E w \in 1..MaxJobs : CallWrite(w)
    \/ \E w \in 1..MaxJobs : OsWrite(w)
    \/ \E w \in 1..MaxJobs : CallEnd(w)
    \/ ReactReturn
    \/ ReactRaise

SpecAppend == InitAppend /\ [][NextAppend]_vars

\* the invocations that have written to their file object so far
Invocations ==
    callLog \cup {handles[w].call : w \in {v \in DOMAIN handles :
                                             handles[v].state = "open"}}

\* the text of the file split at the line ends: the lines, and after the
\* last line end what was written of a line not yet ended
FileParts == Split(file, "\n")

InitTwice ==
    /\ NoMatcher
    /\ handles = <<>>
    /\ paths = <<>>
    /\ n_jobs \in 1..MaxJobs
    /\ min_atom_count \in {0, MaxMinAtomCount}
    /\ molecules_to_remove = <<>>
    /\ patterns_to_remove = <<>>
    /\ neutralize = FALSE
    /\ compounds = <<CompoundsFile[1]>>
    /\ \E path \in OrganismsPaths :
           reaction_rules = load_reaction_rules(RulesFile, load_organisms(path))
    /\ similarity = ReactorSimilarity
    /\ new_compounds = None
    /\ file = None
    /\ pc = "idle"
    /\ taskqueue = <<>>
    /\ worker = <<>>
    /\ poolError = "none"
    /\ callLog = {}
    /\ uuidCount = 0
    /\ readResult = "unread"
    /\ fin = <<>>
    /\ fout = <<>>

\* the first run has ended: its table is kept aside and a reactor of the
\* same configuration is constructed on an empty output directory; uuid4
\* goes on giving values it has not given before
RunAgain ==
    /\ pc \in {"returned", "raised"}
    /\ fin = <<>>
    /\ fin' = <<[file |-> file, pc |-> pc]>>
    /\ file' = None
    /\ new_compounds' = None
    /\ pc' = "idle"
    /\ taskqueue' = <<>>
    /\ worker' = <<>>
    /\ poolError' = "none"
    /\ callLog' = {}
    /\ UNCHANGED <<uuidCount, readResult, fout>>
    /\ UNCHANGED configVars
    /\ UNCHANGED <<matcherVars, handles, paths>>

NextTwice ==
    \/ ReactStart
    \/ \E w \in 1..MaxJobs : WorkerTake(w)
    \/ \E w \in 1..MaxJobs : WorkerCall(w)
    \/ ReactReturn
    \/ ReactRaise
    \/ RunAgain

SpecTwice == InitTwice /\ [][NextTwice]_vars

\* C20: two runs on identical inputs, each into an empty output directory,
\* leave identical new-compounds tables (same rows, same order, same
\* product ids), whatever the number of workers and the order in which
\* they finish
C20_RunsIdentical ==
    (Len(fin) = 1 /\ pc \in {"returned", "raised"}) => file = fin[1].file

(***************************************************************************)
(* Properties of the matcher.                                              *)
(***************************************************************************)
\* the rows of the matches table
Matches == matcher.matches.val

\* the quantity of a product the mode compares, from the structures of its row
Compared(mode, row) ==
    IF mode = "mass" THEN calc_exact_mass(row.NewCompoundSmiles)
    ELSE Minus(calc_exact_mass(row.OriginalCompoundSmiles),
               calc_exact_mass(row.NewCompoundSmiles)).val

\* the reference value of a row of the MS data the mode compares with
Reference(mode, ref) == IF mode = "mass" THEN ref.Mass ELSE ref.MassDiff

\* the matches table holds a row for the product and the reference row
Emitted(mode, row, ref) ==
    \E j \in 1..Len(Matches) :
        /\ Matches[j].NewCompoundID = row.NewCompoundID
        /\ Matches[j].ParentCompound = ref.ParentCompound
        /\ Matches[j].ms_field = Reference(mode, ref)

\* the files and the mode the matcher was constructed with are valid
ValidMatcherInputs ==
    /\ fin.ms_data_path.exists
    /\ MsColumns \subseteq fin.ms_data_path.columns
    /\ fin.compounds_to_match.exists
    /\ Range(Columns) \subseteq fin.compounds_to_match.columns
    /\ fin.mode \in {"mass", "mass_diff"}

\* C12: in mass mode the matches table holds one row for every product and
\* every reference row of its parent compound whose mass is within the
\* tolerance of the product's mass: all such rows, not only a first one
C12_EveryReferenceWithinTolerance ==
    (pc = "generated" /\ matcher.mode = "mass") =>
        \A i \in 1..Len(matcher.new_compounds), k \in 1..Len(matcher.ms_data) :
            LET row == matcher.new_compounds[i].row
                ref == matcher.ms_data[k]
            IN  (/\ Within(Compared("mass", row), ref.Mass, matcher.tolerance)
                 /\ ref.ParentCompound = row.OriginalCompoundID)
                    => Emitted("mass", row, ref)

\* C14: with valid files and a valid mode, a product or a parent whose mass
\* cannot be computed raises no error when the matcher is constructed or
\* run, and such a product has no row in the matches table
C14_UnscoreableIsNoError ==
    (pc # "new" /\ ValidMatcherInputs) =>
        /\ fout = "none"
        /\ pc = "generated" =>
               \A i \in 1..Len(matcher.new_compounds) :
                   LET row == matcher.new_compounds[i].row
                   IN  calc_exact_mass(row.NewCompoundSmiles).type = "NoneType"
                           => \A j \in 1..Len(Matches) :
                                  Matches[j].NewCompoundID # row.NewCompoundID

\* C15: in both modes, a reference row within the tolerance of a product is
\* emitted exactly when its ParentCompound is the source compound id of the
\* product, ids that hold '_' included
C15_ProvenanceGate ==
    pc = "generated" =>
        \A i \in 1..Len(matcher.new_compounds), k \in 1..Len(matcher.ms_data) :
            LET row == matcher.new_compounds[i].row
                ref == matcher.ms_data[k]
            IN  Within(Compared(matcher.mode, row), Reference(matcher.mode, ref),
                       matcher.tolerance)
                    => (Emitted(matcher.mode, row, ref)
                            <=> ref.ParentCompound = row.OriginalCompoundID)

(***************************************************************************)
(* Properties of the generated-results attributes.                         *)
(***************************************************************************)
\* C21: a read of BioReactor.new_compounds raises ValueError while react()
\* has not completed and gives the table once it has
C21_NewCompoundsReadable ==
    [][readResult' # readResult =>
          IF pc = "returned" THEN readResult' = "DataFrame"
          ELSE readResult' \in {"ValueError: not generated"}]_vars

(***************************************************************************)
(* Loaders.load_reaction_rules on a rules file: pandas reads the Organisms *)
(* column, then the rules are filtered by organism.                        *)
(***************************************************************************)
MaxRules == 2

\* the texts an Organisms cell of the file may hold
OrgCells ==
    {<<>>, <<"e">>, <<"e", ";", "h">>, <<"h">>, Spontaneous, <<"5">>,
     <<"5", ";", "e">>}

\* a text pandas parses as a number
IsNumeral(text) ==
    /\ text # <<>>
    /\ \A i \in 1..Len(text) :
           text[i] \in {"0", "1", "2", "3", "4", "5", "6", "7", "8", "9"}

\* pd.read_csv on one column: an empty cell is NaN, and the column is
\* numeric when every other cell is a number
ReadColumn(cells) ==
    LET numeric == \A i \in 1..Len(cells) : cells[i] = <<>> \/ IsNumeral(cells[i])
    IN  [i \in 1..Len(cells) |->
            IF cells[i] = <<>> THEN NaN
            ELSE IF numeric THEN Number(cells[i])
            ELSE cells[i]]

\* the table of a rules file whose Organisms cells are the given texts
RulesTable(cells) ==
    LET col == ReadColumn(cells)
    IN  [i \in 1..Len(cells) |->
            [InternalID |-> <<"R">> \o Dec(i), Reactants |-> AnyT, SMARTS |-> S1,
             EC_Numbers |-> EC1, Organisms |-> col[i]]]

\* a rules file and the organisms asked for
InitRules ==
    /\ NoMatcher
    /\ handles = <<>>
    /\ paths = <<>>
    /\ \E n \in 1..MaxRules : \E cells \in [1..n -> OrgCells] :
       \E path \in {None, <<"e">>, <<"5">>, <<"h", ";", "e">>} :
           fin = [cells |-> cells, path |-> path]
    /\ fout = <<>>
    /\ pc = "rules"
    /\ min_atom_count = 0
    /\ molecules_to_remove = <<>>
    /\ patterns_to_remove = <<>>
    /\ neutralize = FALSE
    /\ n_jobs = 1
    /\ compounds = <<>>
    /\ reaction_rules = <<>>
    /\ similarity = ReactorSimilarity
    /\ new_compounds = None
    /\ file = None
    /\ taskqueue = <<>>
    /\ worker = <<>>
    /\ poolError = "none"
    /\ callLog = {}
    /\ uuidCount = 0
    /\ readResult = "unread"

\* Loaders.load_reaction_rules(path, Loaders.load_organisms(organisms))
LoadReactionRules ==
    /\ pc = "rules"
    /\ pc' = "loaded"
    /\ fout' = load_reaction_rules(RulesTable(fin.cells), load_organisms(fin.path))
    /\ UNCHANGED <<fin, reactorVarsButPc>>
    /\ UNCHANGED configVars
    /\ UNCHANGED <<matcherVars, handles, paths>>

NextRules == LoadReactionRules

SpecRules == InitRules /\ [][NextRules]_vars

\* the organisms of a rule of the file: the ;-separated entries of its cell
OrganismsOf(cell) == IF cell = <<>> THEN {} ELSE Range(Split(cell, ";"))

\* the rules of the table that were kept, by their position in the file
Kept == {i \in 1..Len(fin.cells) :
            \E j \in 1..Len(fout) : fout[j].InternalID = <<"R">> \o Dec(i)}

\* C22: with an organism filter a rule is kept iff its ;-separated
\* Organisms hold a requested organism or 'spontaneous_reaction'; with no
\* filter every rule is kept
C22_OrganismFilter ==
    pc = "loaded" =>
        \A i \in 1..Len(fin.cells) :
            i \in Kept <=>
                \/ fin.path = None
                \/ OrganismsOf(fin.cells[i]) \cap
                       (Range(Split(fin.path, ";")) \cup {Spontaneous}) # {}

(***************************************************************************)
(* Properties of the rows _react_single writes.                            *)
(***************************************************************************)
\* C23: the column check after an append raises ValueError only when the
\* written row is not made of exactly seven tab-separated fields; a call
\* that wrote well-formed rows only has not raised it
C23_ColumnCheckOnlyOnMalformed ==
    \A c \in callLog :
        c.exc = "ValueError" =>
            \E i \in 1..Len(FileRows) : Len(FileRows[i]) # NumColumns

(***************************************************************************)
(* One call of _react_single for the k-th pair of the cross-product, on    *)
(* tables that may hold a SMILES, a SMARTS or a rule id more than once.    *)
(***************************************************************************)
\* compounds files: two compounds of different or of the same SMILES
DupCompounds ==
    {CompoundsFile,
     <<[compound_id |-> <<"a">>, smiles |-> CCO],
       [compound_id |-> <<"b">>, smiles |-> CCO]>>}

\* rules files: different rules, two rules of one SMARTS, two rules of one id
DupRules ==
    {<<RulesFile[1], RulesFile[3]>>,
     <<RulesFile[1], [RulesFile[3] EXCEPT !.SMARTS = S1]>>,
     <<RulesFile[1], [RulesFile[3] EXCEPT !.InternalID = <<"R", "1">>]>>}

InitDup ==
    /\ NoMatcher
    /\ handles = <<>>
    /\ paths = <<>>
    /\ min_atom_count \in 0..MaxMinAtomCount
    /\ molecules_to_remove = <<>>
    /\ patterns_to_remove = <<>>
    /\ neutralize \in BOOLEAN
    /\ n_jobs = 1
    /\ compounds \in DupCompounds
    /\ reaction_rules \in DupRules
    /\ similarity = ReactorSimilarity
    /\ new_compounds = None
    /\ file = HeaderLine
    /\ pc = "pair"
    /\ taskqueue = <<>>
    /\ worker = <<>>
    /\ poolError = "none"
    /\ callLog = {}
    /\ uuidCount = 0
    /\ readResult = "unread"
    /\ fin = <<>>
    /\ fout = <<>>

\* the pool calls _react_single(smiles, smarts) for the k-th pair; fin keeps
\* the compound and the rule the pair was made of
ReactKth ==
    /\ pc = "pair"
    /\ \E k \in 1..Len(Params) :
         LET smiles == Params[k][1]
             smarts == Params[k][2]
             nr == Len(reaction_rules)
         IN  \E results \in ReactResults(smiles, smarts) :
               LET out == _react_single(smiles, smarts, results, uuidCount)
               IN  /\ file' = file \o out.text
                   /\ uuidCount' = out.n
                   /\ poolError' = out.exc
                   /\ fin' = [compound |-> compounds[((k - 1) \div nr) + 1],
                              rule |-> reaction_rules[((k - 1) % nr) + 1]]
    /\ pc' = "called"
    /\ UNCHANGED <<new_compounds, taskqueue, worker, callLog, readResult, fout>>
    /\ UNCHANGED configVars
    /\ UNCHANGED <<matcherVars, handles, paths>>

NextDup == ReactKth

SpecDup == InitDup /\ [][NextDup]_vars

\* C24: every row an invocation writes carries the compound id, the rule id
\* and the EC numbers of the compound and the rule the invocation was made
\* for, also when a SMILES or a SMARTS stands twice in its table
C24_RowOfItsPair ==
    pc = "called" =>
        \A i \in 1..Len(FileRows) :
            /\ FileRows[i][1] = Str(fin.compound.compound_id)
            /\ FileRows[i][3] = Str(fin.rule.InternalID)
            /\ FileRows[i][7] = Str(fin.rule.EC_Numbers)

(***************************************************************************)
(* The setters of BioReactor that store a path and load a table from it.   *)
(***************************************************************************)
\* the paths a test may assign, and the files they name
SetterPaths == {"first", "second", "missing.tsv"}

\* the compounds file a path names
CompoundsAt(path) ==
    IF path = "first" THEN TableFile(CompoundsColumns, CompoundsFile)
    ELSE IF path = "second" THEN TableFile(CompoundsColumns, <<CompoundsFile[1]>>)
    ELSE MissingFile

\* Loaders.load_organisms of a path: an organisms file of one organism, a
\* ;-separated text of organisms, or a file name that does not exist
LoadOrganismsPath(path) ==
    IF path = "first" THEN Returned(load_organisms(<<"e">>))
    ELSE IF path = "second" THEN Returned(load_organisms(<<"h", ";", "e">>))
    ELSE Raised("FileNotFoundError")

\* Loaders.load_byproducts_to_remove of a path: read_csv raises on a path
\* that is no file
LoadByproductsPath(path) ==
    IF path = "first" THEN Returned(load_byproducts_to_remove(<<OO, CC>>))
    ELSE IF path = "second" THEN Returned(load_byproducts_to_remove(<<OO>>))
    ELSE Raised("FileNotFoundError")

\* Loaders.load_patterns_to_remove of a path
LoadPatternsPath(path) ==
    IF path = "first" THEN Returned(load_patterns_to_remove(<<PatO>>))
    ELSE IF path = "second" THEN Returned(load_patterns_to_remove(<<PatAnion>>))
    ELSE Raised("FileNotFoundError")

\* the reaction rules for the organisms of a path (the rules file is valid)
LoadRulesFor(path) ==
    LET orgs == LoadOrganismsPath(path)
    IN  IF orgs.exc # "none" THEN orgs
        ELSE Returned(load_reaction_rules(RulesFile, orgs.val))

\* BioReactor.__init__ on valid paths: every table is loaded from its path
InitSetters ==
    /\ NoMatcher
    /\ handles = <<>>
    /\ paths = [compounds_path |-> "first", organisms_path |-> "first",
                molecules_to_remove_path |-> "first",
                patterns_to_remove_path |-> "first"]
    /\ compounds = LoadCompoundsPath(CompoundsAt("first")).val
    /\ reaction_rules = LoadRulesFor("first").val
    /\ molecules_to_remove = LoadByproductsPath("first").val
    /\ patterns_to_remove = LoadPatternsPath("first").val
    /\ min_atom_count = 0
    /\ neutralize = FALSE
    /\ n_jobs = 1
    /\ similarity = ReactorSimilarity
    /\ new_compounds = None
    /\ file = None
    /\ pc = "idle"
    /\ taskqueue = <<>>
    /\ worker = <<>>
    /\ poolError = "none"
    /\ callLog = {}
    /\ uuidCount = 0
    /\ readResult = "unread"
    /\ fin = [attr |-> "__init__", path |-> "first", before |-> paths]
    /\ fout = "none"

\* br.compounds = path and br.compounds_path = path: the path is stored,
\* then the table is loaded from it
SetCompoundsPath(attr, path) ==
    /\ fin' = [attr |-> attr, path |-> path, before |-> paths]
    /\ IF path # paths.compounds_path
       THEN LET r == LoadCompoundsPath(CompoundsAt(path))
            IN  /\ paths' = [paths EXCEPT !.compounds_path = path]
                /\ compounds' = IF r.exc = "none" THEN r.val ELSE compounds
                /\ fout' = r.exc
       ELSE /\ fout' = "none"
            /\ UNCHANGED <<paths, compounds>>
    /\ UNCHANGED <<min_atom_count, molecules_to_remove, patterns_to_remove,
                   neutralize, n_jobs, reaction_rules, similarity>>
    /\ UNCHANGED <<reactorVars, matcherVars, handles>>

\* br.organisms_path = path: the path is stored, the organisms are loaded
\* and the reaction rules are loaded again for them
SetOrganismsPath(path) ==
    /\ fin' = [attr |-> "organisms_path", path |-> path, before |-> paths]
    /\ IF path # paths.organisms_path
       THEN LET r == LoadRulesFor(path)
            IN  /\ paths' = [paths EXCEPT !.organisms_path = path]
                /\ reaction_rules' = IF r.exc = "none" THEN r.val ELSE reaction_rules
                /\ fout' = r.exc
       ELSE /\ fout' = "none"
            /\ UNCHANGED <<paths, reaction_rules>>
    /\ UNCHANGED <<min_atom_count, molecules_to_remove, patterns_to_remove,
                   neutralize, n_jobs, compounds, similarity>>
    /\ UNCHANGED <<reactorVars, matcherVars, handles>>

\* br.molecules_to_remove_path = path
SetMoleculesToRemovePath(path) ==
    /\ fin' = [attr |-> "molecules_to_remove_path", path |-> path, before |-> paths]
    /\ IF path # paths.molecules_to_remove_path
       THEN LET r == LoadByproductsPath(path)
            IN  /\ paths' = [paths EXCEPT !.molecules_to_remove_path = path]
                /\ molecules_to_remove' = IF r.exc = "none" THEN r.val
                                          ELSE molecules_to_remove
                /\ fout' = r.exc
       ELSE /\ fout' = "none"
            /\ UNCHANGED <<paths, molecules_to_remove>>
    /\ UNCHANGED <<min_atom_count, patterns_to_remove, neutralize, n_jobs,
                   compounds, reaction_rules, similarity>>
    /\ UNCHANGED <<reactorVars, matcherVars, handles>>

\* br.patterns_to_remove_path = path
SetPatternsToRemovePath(path) ==
    /\ fin' = [attr |-> "patterns_to_remove_path", path |-> path, before |-> paths]
    /\ IF path # paths.patterns_to_remove_path
       THEN LET r == LoadPatternsPath(path)
            IN  /\ paths' = [paths EXCEPT !.patterns_to_remove_path = path]
                /\ patterns_to_remove' = IF r.exc = "none" THEN r.val
                                         ELSE patterns_to_remove
                /\ fout' = r.exc
       ELSE /\ fout' = "none"
            /\ UNCHANGED <<paths, patterns_to_remove>>
    /\ UNCHANGED <<min_atom_count, molecules_to_remove, neutralize, n_jobs,
                   compounds, reaction_rules, similarity>>
    /\ UNCHANGED <<reactorVars, matcherVars, handles>>

NextSetters ==
    \/ \E path \in SetterPaths : SetCompoundsPath("compounds", path)
    \/ \E path \in SetterPaths : SetCompoundsPath("compounds_path", path)
    \/ \E path \in SetterPaths : SetOrganismsPath(path)
    \/ \E path \in SetterPaths : SetMoleculesToRemovePath(path)
    \/ \E path \in SetterPaths : SetPatternsToRemovePath(path)

SpecSetters == InitSetters /\ [][NextSetters]_vars

\* C25: in every state of a reactor each loaded table is what loading the
\* stored path gives (so an assignment of a stored path that cannot be
\* loaded cannot return silently), and after an assignment that raised the
\* stored paths are those of before
C25_TablesFollowPaths ==
    /\ LoadCompoundsPath(CompoundsAt(paths.compounds_path)) = Returned(compounds)
    /\ LoadRulesFor(paths.organisms_path) = Returned(reaction_rules)
    /\ LoadByproductsPath(paths.molecules_to_remove_path)
           = Returned(molecules_to_remove)
    /\ LoadPatternsPath(paths.patterns_to_remove_path) = Returned(patterns_to_remove)
    /\ fout # "none" => paths = fin.before

(***************************************************************************)
(* A matcher whose output path is assigned and whose results are then      *)
(* generated.                                                              *)
(***************************************************************************)
\* ms.generate_ms_results() after an assignment of output_path: matches.tsv
\* is written into the directory the matcher stores
GenerateAfterSet ==
    /\ pc = "matcher_set"
    /\ LET rows == IF matcher.mode = "mass" THEN _match_masses(matcher)
                   ELSE _match_mass_diff(matcher)
       IN  /\ matcher' = [matcher EXCEPT
                             !.matches = [type |-> "DataFrame", val |-> rows]]
           /\ disk' = [disk EXCEPT ![matcher.output_path] =
                          Dir({f \in @.files : f.name # "matches.tsv"}
                                  \cup {[name |-> "matches.tsv", content |-> rows]})]
    /\ pc' = "generated"
    /\ UNCHANGED <<cli, output_path, fin, fout, reactorVarsButPc, handles, paths>>
    /\ UNCHANGED configVars

NextMatcherOutput ==
    \/ MatcherNewOn
    \/ MatcherSetOutput
    \/ GenerateAfterSet

SpecMatcherOutput == InitOutput /\ [][NextMatcherOutput]_vars

\* C26: when the assignment of MSDataMatcher.output_path raised
\* FileExistsError the matcher keeps its previous output path, and the
\* generate_ms_results() that follows leaves the rejected directory and
\* its matches.tsv as they were
C26_RejectedDirectoryUntouched ==
    (pc = "generated" /\ fout = "FileExistsError") =>
        /\ matcher.output_path # fin.output_path
        /\ disk[fin.output_path] = fin.before[fin.output_path]

(***************************************************************************)
(* A reactor whose output path is assigned and whose react() then runs.    *)
(***************************************************************************)
\* br.react() after an assignment of output_path: new_compounds.tsv is
\* opened for writing at _new_compounds_path, which __init__ made of
\* _output_path
ReactAfterSet ==
    /\ pc = "reactor_set"
    /\ disk' = [disk EXCEPT ![output_path] =
                   Dir({f \in @.files : f.name # "new_compounds.tsv"}
                           \cup {[name |-> "new_compounds.tsv", content |-> "react"]})]
    /\ pc' = "reacted"
    /\ UNCHANGED <<matcher, cli, output_path, fin, fout, reactorVarsButPc,
                   handles, paths>>
    /\ UNCHANGED configVars

NextReactorOutput ==
    \/ ReactorNew
    \/ ReactorSetOutput
    \/ ReactAfterSet

SpecReactorOutput == InitOutput /\ [][NextReactorOutput]_vars

\* C27: after a successful assignment br.output_path = P, output_path reads
\* P and the next react() writes new_compounds.tsv inside P
C27_AssignedOutputPathUsed ==
    (pc = "reacted" /\ fout = "none") =>
        /\ output_path = fin.output_path
        /\ "new_compounds.tsv" \in FileNames(disk[fin.output_path])

(***************************************************************************)
(* Properties of the flow of biocatalyzer_cli.                             *)
(***************************************************************************)
\* C28: when biocatalyzer_cli is given match_ms_data and an MS data path
\* and react() generated a product, the run ends with matches.tsv written
\* by a matcher built on the output directory
C28_ProductsFlowIntoMatcher ==
    (/\ pc \in {"done", "raised"}
     /\ cli.match_ms_data
     /\ cli.ms_data_path.given
     /\ Len(FileRows) >= 1) =>
        "matches.tsv" \in FileNames(disk["out"])

(***************************************************************************)
(* Duplicates within one call of _react_single.                            *)
(***************************************************************************)
\* the representative the loop of _react_single derives from a reaction smiles
RepresentativeOf(smiles, result) ==
    LET sides == Split(result, ">")
    IN  smiles_to_isomerical_smiles(
            most_similar_compound(smiles, Split(sides[Len(sides)], ".")))

\* the product structure the loop writes for an accepted representative
WrittenProduct(most_similar_product) ==
    IF neutralize THEN uncharge_smiles(most_similar_product)
    ELSE most_similar_product

MaxParenLen == 3

\* the characters of the strings: the two delimiters and an atom
ParenChars == {"(", ")", "C"}

\* the strings of at most MaxParenLen characters
ParenStrings == UNION {[1..n -> ParenChars] : n \in 0..MaxParenLen}

InitParen ==
    /\ NoMatcher
    /\ handles = <<>>
    /\ paths = <<>>
    /\ \E p, q \in ParenStrings : fin \in {<<p>>, <<p, q>>}
    /\ fout = [once |-> <<>>, twice |-> <<>>]
    /\ pc = "input"
    /\ similarity = [x \in SourceSmiles \X ValidSmiles |-> 0]
    /\ min_atom_count = 0
    /\ molecules_to_remove = <<>>
    /\ patterns_to_remove = <<>>
    /\ neutralize = FALSE
    /\ n_jobs = 1
    /\ compounds = CompoundsFile
    /\ reaction_rules = RulesFile
    /\ new_compounds = None
    /\ file = None
    /\ taskqueue = <<>>
    /\ worker = <<>>
    /\ poolError = "none"
    /\ callLog = {}
    /\ uuidCount = 0
    /\ readResult = "unread"

\* _correct_number_of_parenthesis(smiles_list)
CorrectParenthesis ==
    /\ pc = "input"
    /\ fout' = [fout EXCEPT !.once = _correct_number_of_parenthesis(fin)]
    /\ pc' = "once"
    /\ UNCHANGED <<fin, reactorVarsButPc>>
    /\ UNCHANGED configVars
    /\ UNCHANGED <<matcherVars, handles, paths>>

\* _correct_number_of_parenthesis of the list the first call returned
CorrectParenthesisAgain ==
    /\ pc = "once"
    /\ fout' = [fout EXCEPT !.twice = _correct_number_of_parenthesis(fout.once)]
    /\ pc' = "twice"
    /\ UNCHANGED <<fin, reactorVarsButPc>>
    /\ UNCHANGED configVars
    /\ UNCHANGED <<matcherVars, handles, paths>>

NextParen ==
    \/ CorrectParenthesis
    \/ CorrectParenthesisAgain

SpecParen == InitParen /\ [][NextParen]_vars

\* the total count of '(' and ')' of a string is odd
OddParenthesis(p) == (Count(p, "(") + Count(p, ")")) % 2 = 1

\* C30: _correct_number_of_parenthesis leaves a string of even count
\* unchanged; of a string of odd count it removes the leading '(' if there
\* is one, otherwise the trailing ')' if there is one, otherwise nothing;
\* it never removes more than one character, and a second application
\* changes nothing
C30_StrayDelimiterStripped ==
    /\ pc \in {"once", "twice"} =>
         /\ Len(fout.once) = Len(fin)
         /\ \A i \in 1..Len(fin) :
              LET p == fin[i]
                  r == fout.once[i]
              IN  /\ ~OddParenthesis(p) => r = p
                  /\ (OddParenthesis(p) /\ p[1] = "(") => r = Tail(p)
                  /\ (OddParenthesis(p) /\ p[1] # "(" /\ p[Len(p)] = ")") =>
                         r \o <<")">> = p
                  /\ (OddParenthesis(p) /\ p[1] # "(" /\ p[Len(p)] # ")") =>
                         r = p
                  /\ Len(p) - Len(r) \in {0, 1}
    /\ pc = "twice" => fout.twice = fout.once

\* C30 happens: a list was corrected twice that holds a string of odd count
\* with both a leading '(' and a trailing ')', of which only the '(' went,
\* and a string of odd count that lost its trailing ')'
C30_Witness ==
    /\ pc = "twice"
    /\ \E i, j \in 1..Len(fin) :
         /\ OddParenthesis(fin[i])
         /\ fin[i][1] = "("
         /\ fin[i][Len(fin[i])] = ")"
         /\ <<"(">> \o fout.once[i] = fin[i]
         /\ OddParenthesis(fin[j])
         /\ fin[j][1] # "("
         /\ fout.once[j] \o <<")">> = fin[j]

====
